---- MODULE Spec2Model ----
(***************************************************************************)
(* A model of app/retrieval.py: the EmbeddingCache (TTL + LRU), the        *)
(* HybridRetriever's cached query embedding, its three strategy adapters,  *)
(* Reciprocal Rank Fusion and the search orchestrator.                     *)
(*                                                                         *)
(* Time is time.time() read as an integer number of ticks of a clock that  *)
(* never runs backwards.  RRF scores are kept as exact integers: every     *)
(* contribution 1/(k+r) is scaled by ScoreUnit(k), a common multiple of    *)
(* all denominators that can occur, where the source adds IEEE doubles:    *)
(* sums of three contributions that are equal as fractions can differ in   *)
(* the last bit as doubles, e.g. (1/61 + 1/61) + 1/62 and                  *)
(* (1/61 + 1/62) + 1/61, so ties of three-list scores are ties of the      *)
(* fractions here.                                                         *)
(***************************************************************************)
EXTENDS Integers, Sequences, FiniteSets, TLC

(* ------------------------------ bounds -------------------------------- *)
\* number of distinct query texts
MaxTexts == 2
\* number of distinct embedding vectors a caller may put
MaxVec == 2
\* the clock runs from 0 to MaxTime
MaxTime == 2
\* the constructor's max_size is drawn from 0..MaxCap
MaxCap == 2
\* the constructor's ttl_seconds is drawn from 0..MaxTtl
MaxTtl == 1
\* _cache_requests is capped at MaxRequests between two clear_cache calls
MaxRequests == 2
\* number of distinct texts put into a cache that is filled and evicts
MaxLruTexts == 3
\* the retriever's cache holds RetrieverMaxSize entries (1000 in the source)
RetrieverMaxSize == 2
\* and keeps them for RetrieverTtl ticks (3600 seconds in the source)
RetrieverTtl == 1

\* number of distinct texts passed to search
MaxQueries == 1
\* number of distinct chunks in the index
MaxChunks == 2
\* the backend answers with at most MaxHits hits
MaxHits == 3
\* search is called with a top_k of -1..MaxTopK
MaxTopK == 1

\* number of distinct chunks in the lists given to the fusion
MaxFuseChunks == 3
\* the fusion is called with k = RRF_K and with every k of 0..MaxK
MaxK == 1
\* the length of the lists given to a call of the fusion on its own
MaxFuseHits == 2
\* the chunks besides A, B, C of the ranking scenario, and how many of them
\* a list holds after the ranks the scenario fixes
MaxOthers == 2
MaxTail == 1

\* a text given to _chunk_text has at most MaxTokens tokens
MaxTokens == 6
\* settings.CHUNK_SIZE is drawn from 1..MaxChunkSize (300 in the source)
MaxChunkSize == 5
\* settings.CHUNK_OVERLAP is drawn from 0/5 .. MaxOverlapFifths/5 (0.2 in
\* the source)
MaxOverlapFifths == 5
\* settings.MAX_CHUNKS_PER_DOC is drawn from 1..MaxDocChunks (100 in the
\* source)
MaxDocChunks == 2

\* at most MaxCalls calls of generate_answer are under way at a time
MaxCalls == 2
\* failure_threshold is drawn from 1..MaxThreshold (5 in the source)
MaxThreshold == 2
\* recovery_timeout is drawn from 0..MaxRecovery (60 in the source)
MaxRecovery == 1
\* no failure is recorded once failure_count is MaxFailures
MaxFailures == 3

\* the questions put to /query are 1..MaxQuestions
MaxQuestions == 2
\* top_k of a request to /query is drawn from 1..MaxQueryTopK (1..20 in the
\* source)
MaxQueryTopK == 3

\* settings.RRF_K
RRF_K == 60

Texts == 1..MaxTexts
Vectors == 1..MaxVec
\* Python's None, told apart from every vector of 1..MaxVec
None == 0

VARIABLES
    \* EmbeddingCache
    max_size,        \* self.max_size
    ttl_seconds,     \* self.ttl_seconds
    cache,           \* self.cache: key -> vector
    access_times,    \* self.access_times: an insertion-ordered dict, a
                     \* sequence of <<key, time>> pairs
    creation_times,  \* self.creation_times: key -> time
    now,             \* time.time()
    stuck,           \* TRUE once a put is inside a loop that never ends
    fill,            \* history: the distinct texts put, in order, since the
                     \* cache was built or cleared, while nothing else was
                     \* called on it; NoFill otherwise
    \* HybridRetriever
    embedding_model, \* TRUE when the model is loaded, FALSE when it is None
    cache_hits,      \* self._cache_hits
    cache_requests,  \* self._cache_requests
    encode_calls,    \* embedding_model.encode calls since the last clear_cache
    last,            \* the last operation, its argument and what it returned
    \* one call of HybridRetriever.search
    pc,              \* idle | gather | await_elser | returned
    query,           \* the call's arguments
    mode,
    top_k,
    task,            \* the adapter coroutines of the call
    fused_inputs,    \* the lists _reciprocal_rank_fusion was called with
    result,          \* the list the call returned
    outcome,         \* none | returned | raised: what the caller gets
    error,           \* the exception the call ended with, or "none"
    \* concurrent queries on the event loop, each inside _search_dense
    coro,            \* the coroutines: where each one is, and its locals
    running,         \* the coroutine the event loop is running, 0 for none
    \* one call of _reciprocal_rank_fusion
    fusion,          \* its arguments and, once it has run, what it returned
    \* one call of PDFIngester._chunk_text
    chunking,        \* the settings, the tokens and the locals of the loop
    \* RunPodLLM: its circuit breaker and the generate_answer calls
    breaker,         \* self.circuit_breaker: the fields of the CircuitBreaker
    calls,           \* the generate_answer calls: where each one is
    bop,             \* the breaker method called by the last step, or "none"
    \* one request to the /query endpoint
    request          \* where query_documents is, and what it did

cacheVars == <<max_size, ttl_seconds, cache, access_times, creation_times,
               now, stuck, fill>>
retrieverVars == <<embedding_model, cache_hits, cache_requests, encode_calls>>
searchVars == <<pc, query, mode, top_k, task, fused_inputs, result, outcome,
                error>>
concVars == <<coro, running>>
fusionVars == <<fusion>>

Range(s) == {s[i] : i \in 1..Len(s)}

(* --------------------------- EmbeddingCache --------------------------- *)

\* _hash_text: the md5 hex digest of the text, taken as one-to-one on Texts
HashText(text) == <<"md5", text>>

Keys == {HashText(t) : t \in Texts}

\* dict.pop(key, None) on a key -> value map
Pop(d, key) == [x \in DOMAIN d \ {key} |-> d[x]]

\* d[key] = value on a key -> value map
Store(d, key, value) == [x \in DOMAIN d \cup {key} |->
                            IF x = key THEN value ELSE d[x]]

\* the keys of the ordered dict, and the value stored for a key
OKeys(od) == {od[i][1] : i \in 1..Len(od)}
OValue(od, key) == LET i == CHOOSE i \in 1..Len(od) : od[i][1] = key
                   IN  od[i][2]

\* od.pop(key, None): the other entries keep their order
OPop(od, key) == SelectSeq(od, LAMBDA e : e[1] # key)

\* od[key] = value: a known key keeps its place, a new one goes last
OStore(od, key, value) ==
    IF key \in OKeys(od)
    THEN [i \in 1..Len(od) |-> IF od[i][1] = key THEN <<key, value>> ELSE od[i]]
    ELSE Append(od, <<key, value>>)

\* the cache object: its three dictionaries
Self == [cache |-> cache, access_times |-> access_times,
         creation_times |-> creation_times]

Size(self) == Cardinality(DOMAIN self.cache)

\* a mutant of _is_expired: the age is counted from the last access
IsExpiredSinceAccess(self, key, t) ==
    IF key \notin OKeys(self.access_times) THEN TRUE
    ELSE t - OValue(self.access_times, key) > ttl_seconds

\* _is_expired
IsExpired(self, key, t) ==
    IF key \notin DOMAIN self.creation_times THEN TRUE
    ELSE t - self.creation_times[key] > ttl_seconds

\* a mutant of _remove_key: the creation time of the key is left behind
RemoveKeyKeepsCreation(self, key) ==
    [cache |-> Pop(self.cache, key),
     access_times |-> OPop(self.access_times, key),
     creation_times |-> self.creation_times]

\* _remove_key
RemoveKey(self, key) ==
    [cache |-> Pop(self.cache, key),
     access_times |-> OPop(self.access_times, key),
     creation_times |-> Pop(self.creation_times, key)]

\* a mutant of the choice of the victim: the least recently used of the
\* entries that are not expired, when there is one
LruKeySkipExpired(od) ==
    LET live == {i \in 1..Len(od) :
                    /\ od[i][1] \in DOMAIN creation_times
                    /\ now - creation_times[od[i][1]] <= ttl_seconds}
        among == IF live = {} THEN 1..Len(od) ELSE live
        i == CHOOSE i \in among :
                 /\ \A j \in among : od[j][2] >= od[i][2]
                 /\ \A j \in among : j < i => od[j][2] > od[i][2]
    IN  od[i][1]

\* a mutant of the choice of the victim: the oldest entry of the dictionary,
\* whatever its last access
LruKeyFirstInserted(od) == od[1][1]

\* min(self.access_times.keys(), key=...): the first key, in dictionary
\* order, among those with the smallest access time
LruKey(od) ==
    LET i == CHOOSE i \in 1..Len(od) :
                 /\ \A j \in 1..Len(od) : od[j][2] >= od[i][2]
                 /\ \A j \in 1..(i - 1) : od[j][2] > od[i][2]
    IN  od[i][1]

\* _evict_lru
EvictLru(self) ==
    IF self.access_times = <<>> THEN self
    ELSE RemoveKey(self, LruKey(self.access_times))

\* a mutant of the eviction loop's test: evict only when over capacity
OverCapacity(self) == Size(self) > max_size

\* the test of put's while loop
AtCapacity(self) == Size(self) >= max_size

\* put's loop "while len(self.cache) >= self.max_size: self._evict_lru()".
\* An iteration that finds access_times empty changes nothing, so the loop
\* never ends: hang is TRUE and self is the cache it spins on.
RECURSIVE EvictLoop(_)
EvictLoop(self) ==
    IF AtCapacity(self)
    THEN IF self.access_times = <<>>
         THEN [self |-> self, hang |-> TRUE]
         ELSE EvictLoop(EvictLru(self))
    ELSE [self |-> self, hang |-> FALSE]

\* put: the cache after it, and whether it hangs in its loop
PutResult(self, text, embedding, t) ==
    LET key == HashText(text)
        ev  == EvictLoop(self)
    IN  IF ev.hang THEN ev
        ELSE [self |-> [cache |-> Store(ev.self.cache, key, embedding),
                        access_times |-> OStore(ev.self.access_times, key, t),
                        creation_times |-> Store(ev.self.creation_times, key, t)],
              hang |-> FALSE]

\* a mutant of get: an expired entry is reported absent but left in place
GetResultKeepExpired(self, text, t) ==
    LET key == HashText(text)
    IN  IF key \in DOMAIN self.cache /\ ~IsExpired(self, key, t)
        THEN [self |-> [self EXCEPT !.access_times = OStore(@, key, t)],
              ret |-> self.cache[key]]
        ELSE [self |-> self, ret |-> None]

\* get: the cache after it, and the vector it returns (or None)
GetResult(self, text, t) ==
    LET key == HashText(text)
    IN  IF key \in DOMAIN self.cache /\ ~IsExpired(self, key, t)
        THEN [self |-> [self EXCEPT !.access_times = OStore(@, key, t)],
              ret |-> self.cache[key]]
        ELSE IF key \in DOMAIN self.cache
             THEN [self |-> RemoveKey(self, key), ret |-> None]
             ELSE [self |-> self, ret |-> None]

\* clear
ClearResult(self) ==
    [cache |-> <<>>, access_times |-> <<>>, creation_times |-> <<>>]

\* how many entries put's loop evicts from the cache
Evicted(self) == Size(self) - Size(EvictLoop(self).self)

\* whether put's loop evicts an entry that is expired at time t
EvictedExpired(self, t) ==
    \E key \in DOMAIN self.cache \ DOMAIN EvictLoop(self).self.cache :
        IsExpired(self, key, t)

\* the record of an operation: expired says that its lookup found the entry
\* too old and removed it, or that its put evicted an entry that was too
\* old; evicted how many entries its put evicted
LastOp(op, text, ret, expired, evicted) ==
    [op |-> op, text |-> text, ret |-> ret, expired |-> expired,
     evicted |-> evicted]

\* the history of a cache that was not only filled with distinct texts
NoFill == <<0>>

\* the history after put(text)
FillAfterPut(f, text) ==
    IF f # NoFill /\ text \notin Range(f) THEN Append(f, text) ELSE NoFill

SetSelf(self) ==
    /\ cache' = self.cache
    /\ access_times' = self.access_times
    /\ creation_times' = self.creation_times

\* EmbeddingCache.get(text), called directly
CacheGet(text) ==
    /\ ~stuck
    /\ LET r == GetResult(Self, text, now)
       IN  /\ SetSelf(r.self)
           /\ last' = LastOp("get", text, r.ret,
                           HashText(text) \in DOMAIN cache /\ r.ret = None, 0)
    /\ fill' = NoFill
    /\ UNCHANGED <<max_size, ttl_seconds, now, stuck>>
    /\ UNCHANGED <<retrieverVars, searchVars, concVars, fusionVars,
                   chunking, breaker, calls, bop, request>>

\* EmbeddingCache.put(text, embedding), called directly
CachePut(text, embedding) ==
    /\ ~stuck
    /\ LET r == PutResult(Self, text, embedding, now)
       IN  /\ SetSelf(r.self)
           /\ stuck' = r.hang
           /\ last' = LastOp("put", text, embedding,
                           EvictedExpired(Self, now), Evicted(Self))
    /\ fill' = FillAfterPut(fill, text)
    /\ UNCHANGED <<max_size, ttl_seconds, now>>
    /\ UNCHANGED <<retrieverVars, searchVars, concVars, fusionVars,
                   chunking, breaker, calls, bop, request>>

\* EmbeddingCache.clear()
CacheClear ==
    /\ ~stuck
    /\ SetSelf(ClearResult(Self))
    /\ last' = LastOp("clear", 0, None, FALSE, 0)
    /\ fill' = <<>>
    /\ UNCHANGED <<max_size, ttl_seconds, now, stuck>>
    /\ UNCHANGED <<retrieverVars, searchVars, concVars, fusionVars,
                   chunking, breaker, calls, bop, request>>

\* the clock advances between two operations
Tick ==
    /\ ~stuck
    /\ now < MaxTime
    /\ now' = now + 1
    /\ last' = LastOp("tick", 0, None, FALSE, 0)
    /\ UNCHANGED <<max_size, ttl_seconds, cache, access_times, creation_times,
                   stuck, fill>>
    /\ UNCHANGED <<retrieverVars, searchVars, concVars, fusionVars,
                   chunking, breaker, calls, bop, request>>

(* --------------------- HybridRetriever: embedding --------------------- *)

\* embedding_model.encode([query])[0].tolist(): one vector per text
Encode(text) == (text % MaxVec) + 1

\* a mutant of _generate_query_embedding: the vector computed after a miss
\* is returned but not stored
GenerateQueryEmbeddingNoStore(self, text, t) ==
    IF ~embedding_model
    THEN [self |-> self, requests |-> cache_requests, hits |-> cache_hits,
          encodes |-> encode_calls, ret |-> None, raised |-> TRUE,
          hang |-> FALSE]
    ELSE LET g == GetResult(self, text, t)
         IN  IF g.ret # None
             THEN [self |-> g.self, requests |-> cache_requests + 1,
                   hits |-> cache_hits + 1, encodes |-> encode_calls,
                   ret |-> g.ret, raised |-> FALSE, hang |-> FALSE]
             ELSE [self |-> g.self, requests |-> cache_requests + 1,
                   hits |-> cache_hits, encodes |-> encode_calls + 1,
                   ret |-> Encode(text), raised |-> FALSE, hang |-> FALSE]

\* a mutant of _generate_query_embedding: the request is counted after the
\* lookup, on a miss only
GenerateQueryEmbeddingCountsLate(self, text, t) ==
    IF ~embedding_model
    THEN [self |-> self, requests |-> cache_requests, hits |-> cache_hits,
          encodes |-> encode_calls, ret |-> None, raised |-> TRUE,
          hang |-> FALSE]
    ELSE LET g == GetResult(self, text, t)
         IN  IF g.ret # None
             THEN [self |-> g.self, requests |-> cache_requests,
                   hits |-> cache_hits + 1, encodes |-> encode_calls,
                   ret |-> g.ret, raised |-> FALSE, hang |-> FALSE]
             ELSE LET p == PutResult(g.self, text, Encode(text), t)
                  IN  [self |-> p.self, requests |-> cache_requests + 1,
                       hits |-> cache_hits, encodes |-> encode_calls + 1,
                       ret |-> Encode(text), raised |-> FALSE,
                       hang |-> p.hang]

\* _generate_query_embedding: what it leaves behind and what it returns.
\* raised is TRUE for the ValueError of a retriever without a model; hang is
\* TRUE when the put after a miss never returns.
GenerateQueryEmbedding(self, text, t) ==
    IF ~embedding_model
    THEN [self |-> self, requests |-> cache_requests, hits |-> cache_hits,
          encodes |-> encode_calls, ret |-> None, raised |-> TRUE,
          hang |-> FALSE]
    ELSE LET g == GetResult(self, text, t)
         IN  IF g.ret # None
             THEN [self |-> g.self, requests |-> cache_requests + 1,
                   hits |-> cache_hits + 1, encodes |-> encode_calls,
                   ret |-> g.ret, raised |-> FALSE, hang |-> FALSE]
             ELSE LET p == PutResult(g.self, text, Encode(text), t)
                  IN  [self |-> p.self, requests |-> cache_requests + 1,
                       hits |-> cache_hits, encodes |-> encode_calls + 1,
                       ret |-> Encode(text), raised |-> FALSE,
                       hang |-> p.hang]

\* the effect of one _generate_query_embedding call on the retriever
ApplyEmbedding(e) ==
    /\ SetSelf(e.self)
    /\ cache_requests' = e.requests
    /\ cache_hits' = e.hits
    /\ encode_calls' = e.encodes
    /\ stuck' = e.hang
    /\ fill' = IF e.raised THEN fill ELSE NoFill

\* the record of the _generate_query_embedding call with outcome e
EmbeddingOp(e, text) ==
    LET miss == ~e.raised /\ e.hits = cache_hits
    IN  LastOp(IF e.raised THEN "embed_raised" ELSE "embed", text, e.ret,
               miss /\ HashText(text) \in DOMAIN cache,
               IF miss THEN Evicted(GetResult(Self, text, now).self) ELSE 0)

\* HybridRetriever._generate_query_embedding(text), called directly
QueryEmbedding(text) ==
    /\ ~stuck
    /\ cache_requests < MaxRequests
    /\ LET e == GenerateQueryEmbedding(Self, text, now)
       IN  /\ ApplyEmbedding(e)
           /\ last' = EmbeddingOp(e, text)
    /\ UNCHANGED <<max_size, ttl_seconds, now, embedding_model>>
    /\ UNCHANGED <<searchVars, concVars, fusionVars,
                   chunking, breaker, calls, bop, request>>

\* HybridRetriever.clear_cache()
ClearCache ==
    /\ ~stuck
    /\ SetSelf(ClearResult(Self))
    /\ cache_hits' = 0
    /\ cache_requests' = 0
    /\ encode_calls' = 0
    /\ last' = LastOp("clear_cache", 0, None, FALSE, 0)
    /\ fill' = <<>>
    /\ UNCHANGED <<max_size, ttl_seconds, now, stuck, embedding_model>>
    /\ UNCHANGED <<searchVars, concVars, fusionVars,
                   chunking, breaker, calls, bop, request>>

(* ------------------------- strategy adapters -------------------------- *)

Adapters == {"elser", "bm25", "dense"}

\* the order of the coroutines in asyncio.gather(elser_task, bm25_task,
\* dense_task): the event loop runs their first steps in this order
GatherOrder == <<"elser", "bm25", "dense">>

ChunkIds == 1..MaxChunks
Queries == 1..MaxQueries

\* the sequences without repetition of at most n elements of S
RECURSIVE InjSeqs(_, _)
InjSeqs(S, n) ==
    IF n = 0 THEN {<<>>}
    ELSE LET shorter == InjSeqs(S, n - 1)
         IN  shorter \cup
             UNION {{Append(s, c) : c \in S \ Range(s)} :
                        s \in {x \in shorter : Len(x) = n - 1}}

\* what the backend may answer, response["hits"]["hits"] as the list of the
\* hits' chunk ids: every document of the index has its chunk_id as _id, so
\* no chunk comes twice
HitLists == InjSeqs(ChunkIds, MaxHits)

\* hit["_score"]: the backend lists its hits by descending score
HitScore(ids, i) == Len(ids) - i + 1

\* a mutant of the loop: "rank": len(results), counted from 0
AdapterResultsRankFromZero(a, ids) ==
    [i \in 1..Len(ids) |->
        [chunk_id |-> ids[i], source |-> a, score |-> HitScore(ids, i),
         rank |-> i - 1]]

\* the loop over response["hits"]["hits"] of an adapter: one result per hit,
\* in the backend's order, rank = len(results) + 1; source stands for the
\* hit's content, filename and drive_url as this adapter's query got them
AdapterResults(a, ids) ==
    [i \in 1..Len(ids) |->
        [chunk_id |-> ids[i], source |-> a, score |-> HitScore(ids, i),
         rank |-> i]]

\* a coroutine of the call: st is unused | created | awaiting | never | done
\* (never: awaiting a backend call that does not resolve), query and size
\* the arguments the adapter is called with (size the count it asks the
\* backend for), calls how often its body was entered, reply the hits the
\* backend answered with, res
\* what it returned, failed whether it ended in its except clause, raised
\* whether an exception left it, nth its place among the coroutines of the
\* call in the order in which they came to their end (0: not yet)
NoTask == [st |-> "unused", query |-> 0, size |-> 0, calls |-> 0,
           reply |-> <<>>, res |-> <<>>, failed |-> FALSE, raised |-> FALSE,
           nth |-> 0]
NewTask(q, size) ==
    [NoTask EXCEPT !.st = "created", !.query = q, !.size = size]

\* the coroutines of the call that have come to their end
Completed == Cardinality({a \in Adapters : task[a].st = "done"})

\* a mutant of the adapters' except clause: the exception leaves the adapter
AdapterReraises(t) ==
    [t EXCEPT !.st = "done", !.res = <<>>, !.failed = TRUE, !.raised = TRUE,
              !.nth = Completed + 1]

\* "except Exception as e: ... return []" of _search_elser, _search_bm25 and
\* _search_dense
AdapterOnError(t) ==
    [t EXCEPT !.st = "done", !.res = <<>>, !.failed = TRUE,
              !.nth = Completed + 1]

\* the adapter returns the results built from the backend's hits
AdapterOnReply(a, t, ids) ==
    [t EXCEPT !.st = "done", !.reply = ids, !.res = AdapterResults(a, ids),
              !.nth = Completed + 1]

(* ---------------------- Reciprocal Rank Fusion ------------------------ *)

RECURSIVE Gcd(_, _)
Gcd(a, b) == IF b = 0 THEN a ELSE Gcd(b, a % b)

Lcm(a, b) == (a \div Gcd(a, b)) * b

\* the least common multiple of k+1 .. k+n
RECURSIVE LcmUpTo(_, _)
LcmUpTo(k, n) == IF n = 0 THEN 1 ELSE Lcm(LcmUpTo(k, n - 1), k + n)

\* scores are counted in units of 1/ScoreUnit(k)
ScoreUnit(k) == LcmUpTo(k, MaxHits)

\* a mutant of the term: one more is added to the 1-based position
ContributionOffByOne(k, r) == ScoreUnit(k) \div (k + r + 1)

\* 1.0 / (k + i + 1) for the result at index i of enumerate(), which is the
\* result at position r = i + 1 here
Contribution(k, r) == ScoreUnit(k) \div (k + r)

\* a mutant of the loop: "doc_scores[doc_id] = ..." for "+="
RECURSIVE AccumulateOverwrite(_, _, _, _)
AccumulateOverwrite(acc, results, k, r) ==
    IF r > Len(results) THEN acc
    ELSE LET doc == results[r]
             doc_id == doc.chunk_id
         IN  AccumulateOverwrite(
                 [doc_scores |-> OStore(acc.doc_scores, doc_id,
                                        Contribution(k, r)),
                  doc_info |-> Store(acc.doc_info, doc_id, doc)],
                 results, k, r + 1)

\* a mutant of the loop: every result gets an item of its own, whether its
\* chunk was seen before or not
RECURSIVE AccumulateNoMerge(_, _, _, _)
AccumulateNoMerge(acc, results, k, r) ==
    IF r > Len(results) THEN acc
    ELSE LET doc == results[r]
             doc_id == doc.chunk_id
         IN  AccumulateNoMerge(
                 [doc_scores |-> Append(acc.doc_scores,
                                        <<doc_id, Contribution(k, r)>>),
                  doc_info |-> Store(acc.doc_info, doc_id, doc)],
                 results, k, r + 1)

\* one "for i, doc in enumerate(results)" loop from position r on:
\* doc_scores is the insertion-ordered defaultdict(float), doc_info a dict
RECURSIVE Accumulate(_, _, _, _)
Accumulate(acc, results, k, r) ==
    IF r > Len(results) THEN acc
    ELSE LET doc == results[r]
             doc_id == doc.chunk_id
             old == IF doc_id \in OKeys(acc.doc_scores)
                    THEN OValue(acc.doc_scores, doc_id) ELSE 0
         IN  Accumulate(
                 [doc_scores |-> OStore(acc.doc_scores, doc_id,
                                        old + Contribution(k, r)),
                  doc_info |-> Store(acc.doc_info, doc_id, doc)],
                 results, k, r + 1)

\* a mutant of the sort: the items are left in the order of doc_scores
Unsorted(items) == items

\* a mutant of the sort: reverse=False, smallest score first
RECURSIVE SortedByScoreAscending(_)
SortedByScoreAscending(items) ==
    IF items = <<>> THEN <<>>
    ELSE LET i == CHOOSE i \in 1..Len(items) :
                      /\ \A j \in 1..Len(items) : items[j][2] >= items[i][2]
                      /\ \A j \in 1..(i - 1) : items[j][2] > items[i][2]
         IN  <<items[i]>> \o
             SortedByScoreAscending(SubSeq(items, 1, i - 1) \o
                                    SubSeq(items, i + 1, Len(items)))

\* sorted(doc_scores.items(), key=lambda x: x[1], reverse=True): a stable
\* sort, items of equal score keep their order
RECURSIVE SortedByScore(_)
SortedByScore(items) ==
    IF items = <<>> THEN <<>>
    ELSE LET i == CHOOSE i \in 1..Len(items) :
                      /\ \A j \in 1..Len(items) : items[j][2] <= items[i][2]
                      /\ \A j \in 1..(i - 1) : items[j][2] < items[i][2]
         IN  <<items[i]>> \o
             SortedByScore(SubSeq(items, 1, i - 1) \o
                           SubSeq(items, i + 1, Len(items)))

\* doc = doc_info[doc_id].copy(); doc["rrf_score"] = rrf_score
WithRrfScore(doc, rrf_score) ==
    [chunk_id |-> doc.chunk_id, source |-> doc.source, score |-> doc.score,
     rank |-> doc.rank, rrf_score |-> rrf_score]

\* _reciprocal_rank_fusion
ReciprocalRankFusion(elser_results, bm25_results, dense_results, k) ==
    LET a0 == [doc_scores |-> <<>>, doc_info |-> <<>>]
        a1 == Accumulate(a0, elser_results, k, 1)
        a2 == Accumulate(a1, bm25_results, k, 1)
        a3 == Accumulate(a2, dense_results, k, 1)
        sorted_docs == SortedByScore(a3.doc_scores)
    IN  [i \in 1..Len(sorted_docs) |->
            WithRrfScore(a3.doc_info[sorted_docs[i][1]], sorted_docs[i][2])]

\* the chunks, the lists and the values of k of a call of the fusion on its
\* own: a list holds no chunk twice
FuseChunks == 1..MaxFuseChunks
FuseLists == InjSeqs(FuseChunks, MaxFuseHits)
FuseKs == (0..MaxK) \cup {RRF_K}

\* the calls of the fusion a caller makes on the same lists, and the
\* chunks and the length of the lists of such a caller
MaxFuseCalls == 2
MaxAgainChunks == 3
MaxAgainHits == 2

\* the dict of a result of the caller's lists, as an object: the one at
\* place rank of the list of adapter source
RefOf(doc) == <<doc.source, doc.rank>>

\* a mutant of the last loop: doc = doc_info[doc_id], the caller's own dict
DocAlias(doc, i) == RefOf(doc)

\* doc = doc_info[doc_id].copy() in the i-th round of the last loop: a new
\* dict, none of the caller's
DocCopy(doc, i) == <<"fused", i>>

\* the caller's list after the call that returned fused: the last loop has
\* executed doc["rrf_score"] = rrf_score on the dict doc refers to, which
\* shows in the caller's list when that dict is one of its own
AfterFusion(results, fused) ==
    [i \in 1..Len(results) |->
        IF \E j \in 1..Len(fused) : DocCopy(fused[j], j) = RefOf(results[i])
        THEN LET j == CHOOSE j \in 1..Len(fused) :
                          DocCopy(fused[j], j) = RefOf(results[i])
             IN  WithRrfScore(results[i], fused[j].rrf_score)
        ELSE results[i]]

\* no call of the fusion: the caller's three lists, k, what the last call
\* returned, whether there was one, and the number of calls
NoFusion == [elser |-> <<>>, bm25 |-> <<>>, dense |-> <<>>, k |-> RRF_K,
             out |-> <<>>, done |-> FALSE, calls |-> 0]

InitFusion == fusion = NoFusion

\* _reciprocal_rank_fusion(elser_results, bm25_results, dense_results, k)
\* is called on the caller's lists and returns
FuseCall ==
    /\ LET fused == ReciprocalRankFusion(fusion.elser, fusion.bm25,
                                         fusion.dense, fusion.k)
       IN  fusion' = [fusion EXCEPT
                         !.out = fused,
                         !.elser = AfterFusion(fusion.elser, fused),
                         !.bm25 = AfterFusion(fusion.bm25, fused),
                         !.dense = AfterFusion(fusion.dense, fused),
                         !.done = TRUE,
                         !.calls = fusion.calls + 1]
    /\ UNCHANGED <<cacheVars, retrieverVars, last, searchVars, concVars,
                   chunking, breaker, calls, bop, request>>

\* the first call of the fusion on the caller's lists
Fuse ==
    /\ ~fusion.done
    /\ FuseCall

\* the caller calls the fusion once more on its lists
FuseAgain ==
    /\ fusion.done
    /\ fusion.calls < MaxFuseCalls
    /\ FuseCall

(* ------------------------- HybridRetriever.search --------------------- *)

Modes == {"elser", "hybrid", "other"}

Min(a, b) == IF a <= b THEN a ELSE b
Max(a, b) == IF a >= b THEN a ELSE b

\* a mutant of the slice: s[-n:], the last n for a positive n
SliceLast(s, n) ==
    IF n > 0 THEN SubSeq(s, Max(Len(s) - n, 0) + 1, Len(s))
    ELSE SubSeq(s, Min(0 - n, Len(s)) + 1, Len(s))

\* the Python slice s[:n]: a negative n counts from the end
Slice(s, n) ==
    IF n >= 0 THEN SubSeq(s, 1, Min(n, Len(s)))
    ELSE SubSeq(s, 1, Max(Len(s) + n, 0))

\* "except Exception as e: logger.error(...); return []" of search: the
\* caller gets an empty list, e is only logged
SearchExcept(e) == [result |-> <<>>, outcome |-> "returned", error |-> e]

\* the else branch of search: raise ValueError(f"Unknown search mode: ..."),
\* inside the try block
UnknownMode(m) == SearchExcept("ValueError")

\* a mutant of gather: the call goes on as soon as two coroutines are done
GatherFirstTwo ==
    Cardinality({a \in Adapters : task[a].st = "done"}) >= 2

\* await asyncio.gather(elser_task, bm25_task, dense_task) resumes when all
\* three coroutines are done, or with the exception of one that raised
GatherReady ==
    \/ \A a \in Adapters : task[a].st = "done"
    \/ \E a \in Adapters : task[a].st = "done" /\ task[a].raised

\* a mutant of the hybrid branch: a search without any result is an error
HybridReturnNoEvidenceError ==
    LET fused == ReciprocalRankFusion(task["elser"].res, task["bm25"].res,
                                      task["dense"].res, RRF_K)
    IN  IF fused = <<>> \/ \E a \in Adapters : task[a].raised
        THEN SearchExcept("Exception")
        ELSE [result |-> Slice(fused, top_k), outcome |-> "returned",
              error |-> "none"]

\* a mutant of the hybrid branch: an adapter that failed fails the search
HybridReturnAllOrNothing ==
    IF \E a \in Adapters : task[a].raised \/ task[a].failed
    THEN SearchExcept("Exception")
    ELSE [result |-> Slice(ReciprocalRankFusion(task["elser"].res,
                                                task["bm25"].res,
                                                task["dense"].res, RRF_K),
                           top_k),
          outcome |-> "returned", error |-> "none"]

\* a mutant of the hybrid branch: the three lists are put one after the
\* other, not fused
HybridReturnUnfused ==
    IF \E a \in Adapters : task[a].raised
    THEN SearchExcept("Exception")
    ELSE [result |-> Slice(task["elser"].res \o task["bm25"].res
                               \o task["dense"].res, top_k),
          outcome |-> "returned", error |-> "none"]

\* the coroutine of the call that came to its end as the n-th
NthCompleted(n) == CHOOSE a \in Adapters : task[a].nth = n

\* a mutant of the hybrid branch: the three lists are taken in the order
\* in which the coroutines came to their end, not in the order of the gather
HybridReturnAsCompleted ==
    IF \E a \in Adapters : task[a].raised
    THEN SearchExcept("Exception")
    ELSE [result |-> Slice(ReciprocalRankFusion(task[NthCompleted(1)].res,
                                                task[NthCompleted(2)].res,
                                                task[NthCompleted(3)].res,
                                                RRF_K),
                           top_k),
          outcome |-> "returned", error |-> "none"]

\* the hybrid branch after the gather: gather gives the three lists in the
\* order of its arguments; fuse with k = settings.RRF_K and return
\* fused_results[:top_k]
HybridReturn ==
    IF \E a \in Adapters : task[a].raised
    THEN SearchExcept("Exception")
    ELSE [result |-> Slice(ReciprocalRankFusion(task["elser"].res,
                                                task["bm25"].res,
                                                task["dense"].res, RRF_K),
                           top_k),
          outcome |-> "returned", error |-> "none"]

\* a mutant of the elser branch: the adapter's list goes through the fusion
ElserReturnFused ==
    IF task["elser"].raised
    THEN SearchExcept("Exception")
    ELSE [result |-> Slice(ReciprocalRankFusion(task["elser"].res, <<>>,
                                                <<>>, RRF_K), top_k),
          outcome |-> "returned", error |-> "none"]

\* the elser branch after the await: return results[:top_k]
ElserReturn ==
    IF task["elser"].raised
    THEN SearchExcept("Exception")
    ELSE [result |-> Slice(task["elser"].res, top_k), outcome |-> "returned",
          error |-> "none"]

\* a mutant of the hybrid branch: the adapters are asked for top_k results
HybridPoolTopK(k) == k

\* "top_k * 2  # Get more candidates": what the hybrid branch asks each
\* adapter for
HybridPool(k) == k * 2

Finish(r) ==
    /\ pc' = "returned"
    /\ result' = r.result
    /\ outcome' = r.outcome
    /\ error' = r.error

\* search(query, mode, top_k) is called: the elser branch awaits
\* _search_elser(query, top_k), the hybrid branch creates the three
\* coroutines with top_k * 2 and awaits their gather, any other mode raises
Search(q, m, k) ==
    /\ ~stuck
    /\ pc = "idle"
    /\ cache_requests < MaxRequests
    /\ query' = q
    /\ mode' = m
    /\ top_k' = k
    /\ fused_inputs' = <<>>
    /\ IF m = "elser"
       THEN /\ task' = [a \in Adapters |->
                           IF a = "elser" THEN NewTask(q, k) ELSE NoTask]
            /\ pc' = "await_elser"
            /\ UNCHANGED <<result, outcome, error>>
       ELSE IF m = "hybrid"
       THEN /\ task' = [a \in Adapters |-> NewTask(q, HybridPool(k))]
            /\ pc' = "gather"
            /\ UNCHANGED <<result, outcome, error>>
       ELSE /\ task' = [a \in Adapters |-> NoTask]
            /\ Finish(UnknownMode(m))
    /\ UNCHANGED <<cacheVars, retrieverVars, last, concVars, fusionVars,
                   chunking, breaker, calls, bop, request>>

\* the coroutines start in the order of the gather
CanStart(a) ==
    /\ task[a].st = "created"
    /\ \A i, j \in 1..Len(GatherOrder) :
           (i < j /\ GatherOrder[j] = a) => task[GatherOrder[i]].st # "created"

\* an adapter runs up to its "await self.es.search(...)"; _search_dense
\* first calls _generate_query_embedding, whose ValueError ends it in its
\* except clause
AdapterStart(a) ==
    /\ ~stuck
    /\ pc \in {"gather", "await_elser"}
    /\ CanStart(a)
    /\ IF a = "dense"
       THEN LET e == GenerateQueryEmbedding(Self, task[a].query, now)
            IN  /\ ApplyEmbedding(e)
                /\ last' = EmbeddingOp(e, task[a].query)
                /\ task' = [task EXCEPT ![a] =
                               IF e.raised
                               THEN AdapterOnError([@ EXCEPT
                                                       !.calls = @ + 1])
                               ELSE [@ EXCEPT !.st = "awaiting",
                                              !.calls = @ + 1]]
       ELSE /\ task' = [task EXCEPT ![a].st = "awaiting",
                                    ![a].calls = @ + 1]
            /\ UNCHANGED <<cache, access_times, creation_times, cache_hits,
                           cache_requests, encode_calls, stuck, fill, last>>
    /\ UNCHANGED <<max_size, ttl_seconds, now, embedding_model, concVars, fusionVars,
                   chunking, breaker, calls, bop, request>>
    /\ UNCHANGED <<pc, query, mode, top_k, fused_inputs, result, outcome,
                   error>>

\* the backend answers an adapter's query with at most "size" hits
BackendReply(a, ids) ==
    /\ ~stuck
    /\ task[a].st = "awaiting"
    /\ task[a].size >= 0
    /\ Len(ids) <= task[a].size
    /\ task' = [task EXCEPT ![a] = AdapterOnReply(a, @, ids)]
    /\ UNCHANGED <<cacheVars, retrieverVars, last, concVars, fusionVars,
                   chunking, breaker, calls, bop, request>>
    /\ UNCHANGED <<pc, query, mode, top_k, fused_inputs, result, outcome,
                   error>>

\* the backend call of an adapter raises (backend down, model missing, a
\* size it rejects, a malformed answer)
BackendError(a) ==
    /\ ~stuck
    /\ task[a].st = "awaiting"
    /\ task' = [task EXCEPT ![a] = AdapterOnError(@)]
    /\ UNCHANGED <<cacheVars, retrieverVars, last, concVars, fusionVars,
                   chunking, breaker, calls, bop, request>>
    /\ UNCHANGED <<pc, query, mode, top_k, fused_inputs, result, outcome,
                   error>>

\* the backend call of an adapter never resolves
BackendNever(a) ==
    /\ ~stuck
    /\ task[a].st = "awaiting"
    /\ task' = [task EXCEPT ![a].st = "never"]
    /\ UNCHANGED <<cacheVars, retrieverVars, last, concVars, fusionVars,
                   chunking, breaker, calls, bop, request>>
    /\ UNCHANGED <<pc, query, mode, top_k, fused_inputs, result, outcome,
                   error>>

\* the gather resumes the hybrid branch, which fuses and returns
Join ==
    /\ ~stuck
    /\ pc = "gather"
    /\ GatherReady
    /\ fused_inputs' = IF \E a \in Adapters : task[a].raised THEN <<>>
                       ELSE <<[a \in Adapters |-> task[a].res]>>
    /\ Finish(HybridReturn)
    /\ UNCHANGED <<cacheVars, retrieverVars, last, concVars, fusionVars,
                   chunking, breaker, calls, bop, request>>
    /\ UNCHANGED <<query, mode, top_k, task>>

\* _search_elser has returned to the elser branch, which returns
ElserDone ==
    /\ ~stuck
    /\ pc = "await_elser"
    /\ task["elser"].st = "done"
    /\ Finish(ElserReturn)
    /\ UNCHANGED <<cacheVars, retrieverVars, last, concVars, fusionVars,
                   chunking, breaker, calls, bop, request>>
    /\ UNCHANGED <<query, mode, top_k, task, fused_inputs>>

InitSearch ==
    /\ pc = "idle"
    /\ query = 0
    /\ mode = "none"
    /\ top_k = 0
    /\ task = [a \in Adapters |-> NoTask]
    /\ fused_inputs = <<>>
    /\ result = <<>>
    /\ outcome = "none"
    /\ error = "none"

\* the caller has the result; the retriever is ready for the next call
Return ==
    /\ ~stuck
    /\ pc = "returned"
    /\ pc' = "idle"
    /\ query' = 0
    /\ mode' = "none"
    /\ top_k' = 0
    /\ task' = [a \in Adapters |-> NoTask]
    /\ fused_inputs' = <<>>
    /\ result' = <<>>
    /\ outcome' = "none"
    /\ error' = "none"
    /\ UNCHANGED <<cacheVars, retrieverVars, last, concVars, fusionVars,
                   chunking, breaker, calls, bop, request>>

(* ------------- concurrent dense lookups on one event loop ------------- *)

\* number of queries in flight at the same time
MaxCoros == 2

\* _cache_requests is capped at MaxConcRequests between two clear_cache
\* calls
MaxConcRequests == 2
\* number of distinct texts the queries in flight ask for
MaxConcTexts == 2

Coros == 1..MaxCoros
ConcTexts == 1..MaxConcTexts

\* a coroutine running _search_dense: pc says where it is, text is its
\* query, rmkey the key _remove_key is removing and after the place
\* _remove_key returns to, t put's current_time, ret what get returned, and
\* snap the cache and the time at the start of the get or put under way
NoSnap == [self |-> [cache |-> <<>>, access_times |-> <<>>,
                     creation_times |-> <<>>], t |-> 0]
NoCoro == [pc |-> "idle", text |-> 0, rmkey |-> <<>>, after |-> "none",
           t |-> 0, ret |-> None, snap |-> NoSnap]

InitConc ==
    /\ coro = [c \in Coros |-> NoCoro]
    /\ running = 0

\* a mutant of the event loop: a coroutine may be resumed at any time,
\* whatever the others are in the middle of
CanRunPreempting(c) == TRUE

\* asyncio runs one coroutine at a time and switches only at an await: c can
\* take a step when it is the running coroutine or none is running.  get,
\* put and _generate_query_embedding are plain functions without an await.
CanRun(c) == running \in {0, c}

SetCoro(c, r) == coro' = [coro EXCEPT ![c] = r]

\* _search_dense's "except Exception as e: ... return []"
DenseExcept(c) ==
    /\ SetCoro(c, NoCoro)
    /\ running' = 0

\* a query calls _search_dense(text, ...), which calls
\* _generate_query_embedding: without a model it raises, with one it counts
\* the request and calls embedding_cache.get(text)
ConcStart(c, text) ==
    /\ ~stuck
    /\ CanRun(c)
    /\ coro[c].pc = "idle"
    /\ cache_requests < MaxConcRequests
    /\ IF ~embedding_model
       THEN /\ DenseExcept(c)
            /\ UNCHANGED <<cache_requests, fill>>
       ELSE /\ cache_requests' = cache_requests + 1
            /\ fill' = NoFill
            /\ SetCoro(c, [NoCoro EXCEPT !.pc = "get", !.text = text,
                                         !.snap = [self |-> Self, t |-> now]])
            /\ running' = c
    /\ UNCHANGED <<max_size, ttl_seconds, cache, access_times, creation_times,
                   now, stuck, embedding_model, cache_hits, encode_calls,
                   last, searchVars, fusionVars,
                   chunking, breaker, calls, bop, request>>

\* get: "if key in self.cache and not self._is_expired(key)", then
\* "if key in self.cache"
ConcGetCheck(c) ==
    /\ ~stuck
    /\ CanRun(c)
    /\ coro[c].pc = "get"
    /\ LET key == HashText(coro[c].text)
       IN  SetCoro(c, IF key \in DOMAIN cache /\ ~IsExpired(Self, key, now)
                      THEN [coro[c] EXCEPT !.pc = "get_touch"]
                      ELSE IF key \in DOMAIN cache
                      THEN [coro[c] EXCEPT !.pc = "pop_cache", !.rmkey = key,
                                           !.after = "got_miss"]
                      ELSE [coro[c] EXCEPT !.pc = "got_miss"])
    /\ running' = c
    /\ UNCHANGED <<cacheVars, retrieverVars, last, searchVars, fusionVars,
                   chunking, breaker, calls, bop, request>>

\* get: self.access_times[key] = time.time()
ConcGetTouch(c) ==
    /\ ~stuck
    /\ CanRun(c)
    /\ coro[c].pc = "get_touch"
    /\ access_times' = OStore(access_times, HashText(coro[c].text), now)
    /\ SetCoro(c, [coro[c] EXCEPT !.pc = "get_return"])
    /\ running' = c
    /\ UNCHANGED <<max_size, ttl_seconds, cache, creation_times, now, stuck,
                   fill, retrieverVars, last, searchVars, fusionVars,
                   chunking, breaker, calls, bop, request>>

\* get: return self.cache[key], a KeyError when the key is gone
ConcGetReturn(c) ==
    /\ ~stuck
    /\ CanRun(c)
    /\ coro[c].pc = "get_return"
    /\ LET key == HashText(coro[c].text)
       IN  IF key \in DOMAIN cache
           THEN /\ SetCoro(c, [coro[c] EXCEPT !.pc = "got_hit",
                                              !.ret = cache[key]])
                /\ running' = c
           ELSE DenseExcept(c)
    /\ UNCHANGED <<cacheVars, retrieverVars, last, searchVars, fusionVars,
                   chunking, breaker, calls, bop, request>>

\* _remove_key: self.cache.pop(key, None)
ConcPopCache(c) ==
    /\ ~stuck
    /\ CanRun(c)
    /\ coro[c].pc = "pop_cache"
    /\ cache' = Pop(cache, coro[c].rmkey)
    /\ SetCoro(c, [coro[c] EXCEPT !.pc = "pop_access"])
    /\ running' = c
    /\ UNCHANGED <<max_size, ttl_seconds, access_times, creation_times, now,
                   stuck, fill, retrieverVars, last, searchVars, fusionVars,
                   chunking, breaker, calls, bop, request>>

\* _remove_key: self.access_times.pop(key, None)
ConcPopAccess(c) ==
    /\ ~stuck
    /\ CanRun(c)
    /\ coro[c].pc = "pop_access"
    /\ access_times' = OPop(access_times, coro[c].rmkey)
    /\ SetCoro(c, [coro[c] EXCEPT !.pc = "pop_creation"])
    /\ running' = c
    /\ UNCHANGED <<max_size, ttl_seconds, cache, creation_times, now, stuck,
                   fill, retrieverVars, last, searchVars, fusionVars,
                   chunking, breaker, calls, bop, request>>

\* _remove_key: self.creation_times.pop(key, None), and back to the caller
ConcPopCreation(c) ==
    /\ ~stuck
    /\ CanRun(c)
    /\ coro[c].pc = "pop_creation"
    /\ creation_times' = Pop(creation_times, coro[c].rmkey)
    /\ SetCoro(c, [coro[c] EXCEPT !.pc = coro[c].after, !.rmkey = <<>>,
                                  !.after = "none"])
    /\ running' = c
    /\ UNCHANGED <<max_size, ttl_seconds, cache, access_times, now, stuck,
                   fill, retrieverVars, last, searchVars, fusionVars,
                   chunking, breaker, calls, bop, request>>

\* _generate_query_embedding after a hit: count it and return the vector;
\* _search_dense goes on to "await self.es.search(...)"
ConcHit(c) ==
    /\ ~stuck
    /\ CanRun(c)
    /\ coro[c].pc = "got_hit"
    /\ cache_hits' = cache_hits + 1
    /\ SetCoro(c, [coro[c] EXCEPT !.pc = "awaiting", !.snap = NoSnap])
    /\ running' = 0
    /\ UNCHANGED <<cacheVars, embedding_model, cache_requests, encode_calls,
                   last, searchVars, fusionVars,
                   chunking, breaker, calls, bop, request>>

\* _generate_query_embedding after a miss: embedding_model.encode, then
\* embedding_cache.put(query, embedding_list)
ConcEncode(c) ==
    /\ ~stuck
    /\ CanRun(c)
    /\ coro[c].pc = "got_miss"
    /\ encode_calls' = encode_calls + 1
    /\ SetCoro(c, [coro[c] EXCEPT !.pc = "put_loop",
                                  !.snap = [self |-> Self, t |-> now]])
    /\ running' = c
    /\ UNCHANGED <<cacheVars, embedding_model, cache_requests, cache_hits,
                   last, searchVars, fusionVars,
                   chunking, breaker, calls, bop, request>>

\* put: one test of "while len(self.cache) >= self.max_size", and the start
\* of _evict_lru when it holds; a pass that finds access_times empty changes
\* nothing.  When the loop ends, "current_time = time.time()".
ConcPutLoop(c) ==
    /\ ~stuck
    /\ CanRun(c)
    /\ coro[c].pc = "put_loop"
    /\ IF AtCapacity(Self)
       THEN /\ access_times # <<>>
            /\ SetCoro(c, [coro[c] EXCEPT !.pc = "pop_cache",
                                          !.rmkey = LruKey(access_times),
                                          !.after = "put_loop"])
       ELSE SetCoro(c, [coro[c] EXCEPT !.pc = "put_cache", !.t = now])
    /\ running' = c
    /\ UNCHANGED <<cacheVars, retrieverVars, last, searchVars, fusionVars,
                   chunking, breaker, calls, bop, request>>

\* put: self.cache[key] = embedding
ConcPutCache(c) ==
    /\ ~stuck
    /\ CanRun(c)
    /\ coro[c].pc = "put_cache"
    /\ cache' = Store(cache, HashText(coro[c].text), Encode(coro[c].text))
    /\ SetCoro(c, [coro[c] EXCEPT !.pc = "put_access"])
    /\ running' = c
    /\ UNCHANGED <<max_size, ttl_seconds, access_times, creation_times, now,
                   stuck, fill, retrieverVars, last, searchVars, fusionVars,
                   chunking, breaker, calls, bop, request>>

\* put: self.access_times[key] = current_time
ConcPutAccess(c) ==
    /\ ~stuck
    /\ CanRun(c)
    /\ coro[c].pc = "put_access"
    /\ access_times' = OStore(access_times, HashText(coro[c].text), coro[c].t)
    /\ SetCoro(c, [coro[c] EXCEPT !.pc = "put_creation"])
    /\ running' = c
    /\ UNCHANGED <<max_size, ttl_seconds, cache, creation_times, now, stuck,
                   fill, retrieverVars, last, searchVars, fusionVars,
                   chunking, breaker, calls, bop, request>>

\* put: self.creation_times[key] = current_time, and put returns
ConcPutCreation(c) ==
    /\ ~stuck
    /\ CanRun(c)
    /\ coro[c].pc = "put_creation"
    /\ creation_times' = Store(creation_times, HashText(coro[c].text),
                               coro[c].t)
    /\ SetCoro(c, [coro[c] EXCEPT !.pc = "put_done"])
    /\ running' = c
    /\ UNCHANGED <<max_size, ttl_seconds, cache, access_times, now, stuck,
                   fill, retrieverVars, last, searchVars, fusionVars,
                   chunking, breaker, calls, bop, request>>

\* _generate_query_embedding returns the new vector; _search_dense goes on
\* to "await self.es.search(...)"
ConcAwait(c) ==
    /\ ~stuck
    /\ CanRun(c)
    /\ coro[c].pc = "put_done"
    /\ SetCoro(c, [coro[c] EXCEPT !.pc = "awaiting", !.snap = NoSnap,
                                  !.ret = Encode(coro[c].text)])
    /\ running' = 0
    /\ UNCHANGED <<cacheVars, retrieverVars, last, searchVars, fusionVars,
                   chunking, breaker, calls, bop, request>>

\* the backend's answer resumes _search_dense, which builds its results and
\* returns without touching the cache
ConcReply(c) ==
    /\ ~stuck
    /\ CanRun(c)
    /\ coro[c].pc = "awaiting"
    /\ SetCoro(c, NoCoro)
    /\ running' = 0
    /\ UNCHANGED <<cacheVars, retrieverVars, last, searchVars, fusionVars,
                   chunking, breaker, calls, bop, request>>

\* time passes, and the admin endpoint clears the cache, while no coroutine
\* is running
ConcTick ==
    /\ running = 0
    /\ Tick

ConcClearCache ==
    /\ running = 0
    /\ ClearCache

(* ---------------------- PDFIngester._chunk_text ----------------------- *)

\* a text is written as the sequence of the kinds of its tokens: a token
\* spells a word or white space only
TokenTexts == UNION {[1..n -> {"blank", "word"}] : n \in 0..MaxTokens}

\* self.tokenizer.encode(text): the tokens of the text, each one the piece
\* of the text at its place
TokenizerEncode(text) == [i \in 1..Len(text) |-> [at |-> i, kind |-> text[i]]]

\* "not s.strip()" for the string the tokens spell
IsBlank(tokens) == \A i \in 1..Len(tokens) : tokens[i].kind = "blank"

\* s.strip() for the string the tokens spell: without the white space at
\* its two ends
Strip(tokens) ==
    IF IsBlank(tokens) THEN <<>>
    ELSE LET first == CHOOSE i \in 1..Len(tokens) :
                          /\ tokens[i].kind = "word"
                          /\ \A j \in 1..(i - 1) : tokens[j].kind = "blank"
             final == CHOOSE i \in 1..Len(tokens) :
                          /\ tokens[i].kind = "word"
                          /\ \A j \in (i + 1)..Len(tokens) :
                                 tokens[j].kind = "blank"
         IN  SubSeq(tokens, first, final)

\* overlap_size = int(chunk_size * settings.CHUNK_OVERLAP), cut to
\* chunk_size // 2 when it is not less than chunk_size
OverlapSize(chunk_size, fifths) ==
    LET overlap_size == (chunk_size * fifths) \div 5
    IN  IF overlap_size >= chunk_size THEN chunk_size \div 2
        ELSE overlap_size

\* a mutant of the step of the loop: without the check "next_start <= start"
NextStartNoCheck(start, end, chunk_size, overlap_size) == end - overlap_size

\* next_start = end - overlap_size, and start + max(1, chunk_size -
\* overlap_size) when that does not advance
NextStart(start, end, chunk_size, overlap_size) ==
    LET next_start == end - overlap_size
    IN  IF next_start <= start
        THEN start + Max(1, chunk_size - overlap_size)
        ELSE next_start

\* no call of _chunk_text: the settings and, of a call, the tokens, the
\* locals of the loop, the number of rounds of the loop and where the call
\* is (idle | loop | done)
NoChunking == [chunk_size |-> 1, overlap_fifths |-> 0, max_chunks |-> 1,
               text |-> <<>>, tokens |-> <<>>, overlap_size |-> 0,
               start |-> 0, chunk_idx |-> 0, chunks |-> <<>>, rounds |-> 0,
               pc |-> "idle"]

InitIngest == chunking = NoChunking

\* _chunk_text(text, filename, drive_url) is called and runs up to its
\* loop; a blank text returns [] at once
ChunkText(text) ==
    /\ chunking.pc = "idle"
    /\ chunking' =
           IF IsBlank(TokenizerEncode(text))
           THEN [chunking EXCEPT !.text = text, !.pc = "done"]
           ELSE [chunking EXCEPT
                    !.text = text,
                    !.tokens = TokenizerEncode(text),
                    !.overlap_size = OverlapSize(chunking.chunk_size,
                                                 chunking.overlap_fifths),
                    !.pc = "loop"]
    /\ UNCHANGED <<cacheVars, retrieverVars, last, searchVars, concVars,
                   fusionVars, breaker, calls, bop, request>>

\* one round of the loop "while start < len(tokens) and chunk_idx <
\* max_chunks": the tokens start..end are decoded, appended as a chunk when
\* they are not blank, and start moves on
ChunkLoop ==
    /\ chunking.pc = "loop"
    /\ chunking.start < Len(chunking.tokens)
    /\ chunking.chunk_idx < chunking.max_chunks
    /\ LET start == chunking.start
           end == Min(start + chunking.chunk_size, Len(chunking.tokens))
           chunk_tokens == SubSeq(chunking.tokens, start + 1, end)
           kept == ~IsBlank(chunk_tokens)
       IN  chunking' =
               [chunking EXCEPT
                   !.chunks = IF kept
                              THEN Append(@, [content |-> Strip(chunk_tokens),
                                              chunk_idx |-> chunking.chunk_idx,
                                              tokens |-> chunk_tokens])
                              ELSE @,
                   !.chunk_idx = IF kept THEN @ + 1 ELSE @,
                   !.start = NextStart(start, end, chunking.chunk_size,
                                       chunking.overlap_size),
                   !.rounds = @ + 1]
    /\ UNCHANGED <<cacheVars, retrieverVars, last, searchVars, concVars,
                   fusionVars, breaker, calls, bop, request>>

\* the loop has ended: return chunks
ChunkReturn ==
    /\ chunking.pc = "loop"
    /\ \/ chunking.start >= Len(chunking.tokens)
       \/ chunking.chunk_idx >= chunking.max_chunks
    /\ chunking' = [chunking EXCEPT !.pc = "done"]
    /\ UNCHANGED <<cacheVars, retrieverVars, last, searchVars, concVars,
                   fusionVars, breaker, calls, bop, request>>

(* ------------------- CircuitBreaker and RunPodLLM --------------------- *)

\* CircuitBreaker(failure_threshold=5, recovery_timeout=60, ...) of
\* RunPodLLM.__init__
FailureThreshold == 5
RecoveryTimeout == 60

\* last_failure_time = None
NoTime == -1

\* CircuitBreaker.__init__
NewBreaker(failure_threshold, recovery_timeout) ==
    [failure_threshold |-> failure_threshold,
     recovery_timeout |-> recovery_timeout,
     failure_count |-> 0,
     last_failure_time |-> NoTime,
     state |-> "CLOSED"]

\* a mutant of can_execute: OPEN ends when recovery_timeout has elapsed,
\* not when more than recovery_timeout has
CanExecuteAtTimeout(b, t) ==
    CASE b.state = "CLOSED" -> [ok |-> TRUE, breaker |-> b]
      [] b.state = "OPEN" ->
            IF t - b.last_failure_time >= b.recovery_timeout
            THEN [ok |-> TRUE, breaker |-> [b EXCEPT !.state = "HALF_OPEN"]]
            ELSE [ok |-> FALSE, breaker |-> b]
      [] OTHER -> [ok |-> TRUE, breaker |-> b]

\* can_execute() at time t: what it returns and the breaker it leaves
CanExecute(b, t) ==
    CASE b.state = "CLOSED" -> [ok |-> TRUE, breaker |-> b]
      [] b.state = "OPEN" ->
            IF t - b.last_failure_time > b.recovery_timeout
            THEN [ok |-> TRUE, breaker |-> [b EXCEPT !.state = "HALF_OPEN"]]
            ELSE [ok |-> FALSE, breaker |-> b]
      [] OTHER -> [ok |-> TRUE, breaker |-> b]

\* a mutant of record_success: failure_count is kept
RecordSuccessKeepsCount(b) ==
    IF b.state = "HALF_OPEN" THEN [b EXCEPT !.state = "CLOSED"] ELSE b

\* record_success()
RecordSuccess(b) ==
    [b EXCEPT !.state = IF @ = "HALF_OPEN" THEN "CLOSED" ELSE @,
              !.failure_count = 0]

\* a mutant of record_failure: the breaker opens when failure_count is
\* above failure_threshold
RecordFailureOpensLate(b, t) ==
    LET counted == [b EXCEPT !.failure_count = @ + 1,
                             !.last_failure_time = t]
    IN  IF \/ /\ counted.failure_count > counted.failure_threshold
              /\ counted.state # "OPEN"
           \/ counted.state = "HALF_OPEN"
        THEN [counted EXCEPT !.state = "OPEN"]
        ELSE counted

\* record_failure() at time t
RecordFailure(b, t) ==
    LET counted == [b EXCEPT !.failure_count = @ + 1,
                             !.last_failure_time = t]
        opened == IF /\ counted.failure_count >= counted.failure_threshold
                     /\ counted.state # "OPEN"
                  THEN [counted EXCEPT !.state = "OPEN"]
                  ELSE counted
    IN  IF opened.state = "HALF_OPEN"
        THEN [opened EXCEPT !.state = "OPEN"]
        ELSE opened

\* no call of generate_answer: pc is where the call is (idle | awaiting |
\* done), sent whether it posted its request to the API, recorded how many
\* outcomes it recorded with the breaker, test whether can_execute admitted
\* it with the breaker HALF_OPEN, ret what it returned
NoCall == [pc |-> "idle", sent |-> FALSE, recorded |-> 0, test |-> FALSE,
           ret |-> "none"]

\* RunPodLLM.__init__; bop is the method of the breaker the last step
\* called, when it was called and in which state of the breaker, and the
\* failures recorded since the last record_success
InitLlm ==
    /\ breaker = NewBreaker(FailureThreshold, RecoveryTimeout)
    /\ calls = [c \in 1..MaxCalls |-> NoCall]
    /\ bop = [op |-> "none", at |-> 0, from |-> "CLOSED", since |-> 0]

\* generate_answer(question, chunks) from its call to its first await:
\* can_execute(), the test "not chunks", and the request is posted
GenerateStart(c, has_chunks) ==
    /\ calls[c].pc = "idle"
    /\ LET checked == CanExecute(breaker, now)
       IN  /\ breaker' = checked.breaker
           /\ calls' =
                  [calls EXCEPT ![c] =
                      IF ~checked.ok
                      THEN [NoCall EXCEPT !.pc = "done",
                                          !.ret = "unavailable"]
                      ELSE IF ~has_chunks
                      THEN [NoCall EXCEPT
                               !.pc = "done",
                               !.test = checked.breaker.state = "HALF_OPEN",
                               !.ret = "no_documents"]
                      ELSE [NoCall EXCEPT
                               !.pc = "awaiting",
                               !.test = checked.breaker.state = "HALF_OPEN",
                               !.sent = TRUE]]
    /\ bop' = [bop EXCEPT !.op = "can_execute", !.at = now,
                           !.from = breaker.state]
    /\ UNCHANGED <<cacheVars, retrieverVars, last, searchVars, concVars,
                   fusionVars, chunking, request>>

\* the request of call c ends in the way how, and generate_answer
\* runs to its return
ApiResponse(c, how) ==
    /\ calls[c].pc = "awaiting"
    /\ how \in {"status", "raise"} =>
           breaker.failure_count < MaxFailures
    /\ CASE how = "answer" ->
               /\ breaker' = RecordSuccess(breaker)
               /\ bop' = [op |-> "record_success", at |-> now,
                           from |-> breaker.state, since |-> 0]
               /\ calls' = [calls EXCEPT ![c].pc = "done",
                                         ![c].recorded = @ + 1,
                                         ![c].ret = "answer"]
         [] how = "empty" ->
               /\ breaker' = breaker
               /\ bop' = [bop EXCEPT !.op = "none"]
               /\ calls' = [calls EXCEPT ![c].pc = "done",
                                         ![c].ret = "no_answer"]
         [] OTHER ->
               /\ breaker' = RecordFailure(breaker, now)
               /\ bop' = [op |-> "record_failure", at |-> now,
                           from |-> breaker.state, since |-> bop.since + 1]
               /\ calls' = [calls EXCEPT ![c].pc = "done",
                                         ![c].recorded = @ + 1,
                                         ![c].ret = "error"]
    /\ UNCHANGED <<cacheVars, retrieverVars, last, searchVars, concVars,
                   fusionVars, chunking, request>>

\* the caller has the answer of call c
GenerateReturn(c) ==
    /\ calls[c].pc = "done"
    /\ calls' = [calls EXCEPT ![c] = NoCall]
    /\ bop' = [bop EXCEPT !.op = "none"]
    /\ UNCHANGED <<cacheVars, retrieverVars, last, searchVars, concVars,
                   fusionVars, chunking, breaker, request>>

(* -------------------------- query_documents ---------------------------- *)

\* no request to /query: pc is where query_documents is (idle | searching |
\* generating | done), safe what is_safe_query answered, chunks the number
\* of hits retriever.search returned, evidence what has_sufficient_evidence
\* answered, searched and generated how often retriever.search and
\* llm.generate_answer were called, citations the length of the citation
\* list of the response (-1 without a response), outcome how it ended
NoRequest == [pc |-> "idle", question |-> 0, mode |-> "elser", top_k |-> 1,
              safe |-> TRUE, chunks |-> 0, evidence |-> FALSE,
              searched |-> 0, generated |-> 0, citations |-> -1,
              outcome |-> "none"]

InitApi == request = NoRequest

\* a mutant of the evidence test: has_sufficient_evidence is not asked
InsufficientOnlyWhenEmpty(n, evidence) == n = 0

\* "not chunks or not guardrails.has_sufficient_evidence(chunks)"
Insufficient(n, evidence) == n = 0 \/ ~evidence

\* query_documents(request) from its call to its first await: the question
\* is refused, or retriever.search is called
QueryStart(question, safe, m, k) ==
    /\ request.pc = "idle"
    /\ request' =
           IF ~safe
           THEN [NoRequest EXCEPT !.question = question, !.mode = m,
                                  !.top_k = k, !.safe = FALSE,
                                  !.pc = "done", !.outcome = "unsafe",
                                  !.citations = 0]
           ELSE [NoRequest EXCEPT !.question = question, !.mode = m,
                                  !.top_k = k, !.pc = "searching",
                                  !.searched = 1]
    /\ UNCHANGED <<cacheVars, retrieverVars, last, searchVars, concVars,
                   fusionVars, chunking, breaker, calls, bop>>

\* retriever.search returns n chunks: too little evidence ends the request,
\* otherwise llm.generate_answer is called
QuerySearched(n, evidence) ==
    /\ request.pc = "searching"
    /\ n \in 0..request.top_k
    /\ n = 0 => ~evidence
    /\ request' =
           IF Insufficient(n, evidence)
           THEN [request EXCEPT !.chunks = n, !.evidence = evidence,
                                !.pc = "done", !.outcome = "no_evidence",
                                !.citations = 0]
           ELSE [request EXCEPT !.chunks = n, !.evidence = evidence,
                                !.pc = "generating",
                                !.generated = @ + 1]
    /\ UNCHANGED <<cacheVars, retrieverVars, last, searchVars, concVars,
                   fusionVars, chunking, breaker, calls, bop>>

\* the validation of the answer or the making of the citations raises:
\* the except clause answers with status 500, without a QueryResponse
QueryFailed ==
    /\ request.pc = "generating"
    /\ request' = [request EXCEPT !.pc = "done", !.outcome = "error"]
    /\ UNCHANGED <<cacheVars, retrieverVars, last, searchVars, concVars,
                   fusionVars, chunking, breaker, calls, bop>>

\* llm.generate_answer returns: the answer is validated and returned with
\* one citation for each chunk
QueryGenerated ==
    /\ request.pc = "generating"
    /\ request' = [request EXCEPT !.pc = "done", !.outcome = "answer",
                                  !.citations = request.chunks]
    /\ UNCHANGED <<cacheVars, retrieverVars, last, searchVars, concVars,
                   fusionVars, chunking, breaker, calls, bop>>

\* the response is sent
QueryRespond ==
    /\ request.pc = "done"
    /\ request' = NoRequest
    /\ UNCHANGED <<cacheVars, retrieverVars, last, searchVars, concVars,
                   fusionVars, chunking, breaker, calls, bop>>

vars == <<max_size, ttl_seconds, cache, access_times, creation_times, now,
          stuck, fill, embedding_model, cache_hits, cache_requests, encode_calls,
          last, pc, query, mode, top_k, task, fused_inputs, result, outcome,
          error, coro, running, fusion, chunking, breaker, calls, bop,
          request>>

\* a cache as EmbeddingCache(max_size, ttl_seconds) builds it
InitCache ==
    /\ max_size \in 0..MaxCap
    /\ ttl_seconds \in 0..MaxTtl
    /\ cache = <<>>
    /\ access_times = <<>>
    /\ creation_times = <<>>
    /\ now = 0
    /\ stuck = FALSE
    /\ fill = <<>>
    /\ embedding_model = TRUE
    /\ cache_hits = 0
    /\ cache_requests = 0
    /\ encode_calls = 0
    /\ last = LastOp("init", 0, None, FALSE, 0)
    /\ InitSearch
    /\ InitConc
    /\ InitIngest
    /\ InitLlm
    /\ InitApi
    /\ InitFusion

\* the cache on its own, under every sequence of get, put and clear
NextCache ==
    \/ \E t \in Texts : CacheGet(t)
    \/ \E t \in Texts, v \in Vectors : CachePut(t, v)
    \/ CacheClear
    \/ Tick

SpecCache == InitCache /\ [][NextCache]_vars

\* the texts of a cache that is filled beyond its capacity
LruTexts == 1..MaxLruTexts

\* a cache as EmbeddingCache(max_size, ttl_seconds) builds it, for fewer
\* entries than there are texts
InitLru ==
    /\ max_size \in 1..(MaxLruTexts - 1)
    /\ ttl_seconds \in 0..MaxTtl
    /\ cache = <<>>
    /\ access_times = <<>>
    /\ creation_times = <<>>
    /\ now = 0
    /\ stuck = FALSE
    /\ fill = <<>>
    /\ embedding_model = TRUE
    /\ cache_hits = 0
    /\ cache_requests = 0
    /\ encode_calls = 0
    /\ last = LastOp("init", 0, None, FALSE, 0)
    /\ InitSearch
    /\ InitConc
    /\ InitIngest
    /\ InitLlm
    /\ InitApi
    /\ InitFusion

\* the cache on its own, with more texts than it can hold; a text is put
\* with the vector the model computes for it
NextLru ==
    \/ \E t \in LruTexts : CacheGet(t)
    \/ \E t \in LruTexts : CachePut(t, Encode(t))
    \/ CacheClear
    \/ Tick

SpecLru == InitLru /\ [][NextLru]_vars

\* HybridRetriever.__init__: the cache is EmbeddingCache(max_size=1000,
\* ttl_seconds=3600), here with RetrieverMaxSize entries and RetrieverTtl
\* ticks; initialize() has loaded the model, or has not
InitRetriever ==
    /\ max_size = RetrieverMaxSize
    /\ ttl_seconds = RetrieverTtl
    /\ cache = <<>>
    /\ access_times = <<>>
    /\ creation_times = <<>>
    /\ now = 0
    /\ stuck = FALSE
    /\ fill = <<>>
    /\ embedding_model \in BOOLEAN
    /\ cache_hits = 0
    /\ cache_requests = 0
    /\ encode_calls = 0
    /\ last = LastOp("init", 0, None, FALSE, 0)
    /\ InitSearch
    /\ InitConc
    /\ InitIngest
    /\ InitLlm
    /\ InitApi
    /\ InitFusion

\* the retriever's cached embedding lookups, with the cache it owns
NextEmbed ==
    \/ \E q \in Texts : QueryEmbedding(q)
    \/ \E t \in Texts : CacheGet(t)
    \/ ClearCache
    \/ Tick

SpecEmbed == InitRetriever /\ [][NextEmbed]_vars

\* queries whose dense lookups share the retriever's cache on one event loop
NextConc ==
    \/ \E c \in Coros, t \in ConcTexts : ConcStart(c, t)
    \/ \E c \in Coros : ConcGetCheck(c)
    \/ \E c \in Coros : ConcGetTouch(c)
    \/ \E c \in Coros : ConcGetReturn(c)
    \/ \E c \in Coros : ConcPopCache(c)
    \/ \E c \in Coros : ConcPopAccess(c)
    \/ \E c \in Coros : ConcPopCreation(c)
    \/ \E c \in Coros : ConcHit(c)
    \/ \E c \in Coros : ConcEncode(c)
    \/ \E c \in Coros : ConcPutLoop(c)
    \/ \E c \in Coros : ConcPutCache(c)
    \/ \E c \in Coros : ConcPutAccess(c)
    \/ \E c \in Coros : ConcPutCreation(c)
    \/ \E c \in Coros : ConcAwait(c)
    \/ \E c \in Coros : ConcReply(c)
    \/ ConcTick
    \/ ConcClearCache

\* a retriever whose cache holds one entry less than there are texts
InitShared ==
    /\ max_size = MaxConcTexts - 1
    /\ ttl_seconds = RetrieverTtl
    /\ cache = <<>>
    /\ access_times = <<>>
    /\ creation_times = <<>>
    /\ now = 0
    /\ stuck = FALSE
    /\ fill = <<>>
    /\ embedding_model \in BOOLEAN
    /\ cache_hits = 0
    /\ cache_requests = 0
    /\ encode_calls = 0
    /\ last = LastOp("init", 0, None, FALSE, 0)
    /\ InitSearch
    /\ InitConc
    /\ InitIngest
    /\ InitLlm
    /\ InitApi
    /\ InitFusion

SpecConc == InitShared /\ [][NextConc]_vars

\* a retriever and the arguments of one call of its fusion: three lists of
\* adapter results and a k
InitFuse ==
    /\ max_size = RetrieverMaxSize
    /\ ttl_seconds = RetrieverTtl
    /\ cache = <<>>
    /\ access_times = <<>>
    /\ creation_times = <<>>
    /\ now = 0
    /\ stuck = FALSE
    /\ fill = <<>>
    /\ embedding_model = TRUE
    /\ cache_hits = 0
    /\ cache_requests = 0
    /\ encode_calls = 0
    /\ last = LastOp("init", 0, None, FALSE, 0)
    /\ InitSearch
    /\ InitConc
    /\ InitIngest
    /\ InitLlm
    /\ InitApi
    /\ \E e \in FuseLists, b \in FuseLists, d \in FuseLists, k \in FuseKs :
           fusion = [NoFusion EXCEPT !.elser = AdapterResults("elser", e),
                                     !.bm25 = AdapterResults("bm25", b),
                                     !.dense = AdapterResults("dense", d),
                                     !.k = k]

\* the fusion on its own, on every triple of lists
NextFuse == Fuse

SpecFuse == InitFuse /\ [][NextFuse]_vars

\* a caller with three lists of adapter results that calls the fusion on
\* them with k = RRF_K, and again
InitFuseAgain ==
    /\ max_size = RetrieverMaxSize
    /\ ttl_seconds = RetrieverTtl
    /\ cache = <<>>
    /\ access_times = <<>>
    /\ creation_times = <<>>
    /\ now = 0
    /\ stuck = FALSE
    /\ fill = <<>>
    /\ embedding_model = TRUE
    /\ cache_hits = 0
    /\ cache_requests = 0
    /\ encode_calls = 0
    /\ last = LastOp("init", 0, None, FALSE, 0)
    /\ InitSearch
    /\ InitConc
    /\ InitIngest
    /\ InitLlm
    /\ InitApi
    /\ \E e, b, d \in InjSeqs(1..MaxAgainChunks, MaxAgainHits) :
           fusion = [NoFusion EXCEPT !.elser = AdapterResults("elser", e),
                                     !.bm25 = AdapterResults("bm25", b),
                                     !.dense = AdapterResults("dense", d)]

NextFuseAgain == Fuse \/ FuseAgain

SpecFuseAgain == InitFuseAgain /\ [][NextFuseAgain]_vars

\* one search call after the other on a retriever
NextSearch ==
    \/ \E q \in Queries, m \in Modes, k \in -1..MaxTopK : Search(q, m, k)
    \/ \E a \in Adapters : AdapterStart(a)
    \/ \E a \in Adapters, ids \in HitLists : BackendReply(a, ids)
    \/ \E a \in Adapters : BackendError(a)
    \/ \E a \in Adapters : BackendNever(a)
    \/ Join
    \/ ElserDone
    \/ Return

SpecSearch == InitRetriever /\ [][NextSearch]_vars

\* the chunks of the ranking scenario: A, B, C and the others
ChunkA == 1
ChunkB == 2
ChunkC == 3
ChunkX == 4
OtherChunks == 4..(3 + MaxOthers)
ScenarioTopK == 3

\* the answers of a backend that begin with the ranks the scenario fixes
\* and go on with other chunks, none twice in a list
ScenarioLists(fixed) ==
    {fixed \o t : t \in {u \in InjSeqs(OtherChunks \ Range(fixed),
                                       Min(MaxTail, MaxHits - Len(fixed))) :
                             Len(fixed) + Len(u) <= 2 * ScenarioTopK}}

\* what the three backends answer in the scenario: lexical = [A, C, ...],
\* sparse = [B, ...], dense = [C, x, A, ...]
ScenarioHits(a) ==
    IF a = "bm25" THEN ScenarioLists(<<ChunkA, ChunkC>>)
    ELSE IF a = "elser" THEN ScenarioLists(<<ChunkB>>)
    ELSE ScenarioLists(<<ChunkC, ChunkX, ChunkA>>)

\* hybrid searches with top_k = 3 on an index whose backends answer as in
\* the scenario
NextScenario ==
    \/ \E q \in Queries : Search(q, "hybrid", ScenarioTopK)
    \/ \E a \in Adapters : AdapterStart(a)
    \/ \E a \in Adapters : \E ids \in ScenarioHits(a) : BackendReply(a, ids)
    \/ Join
    \/ Return

SpecScenario == InitRetriever /\ [][NextScenario]_vars

\* a retriever that is built and at rest: what the ingester, the breaker
\* and the endpoint run beside
InitAtRest ==
    /\ max_size = RetrieverMaxSize
    /\ ttl_seconds = RetrieverTtl
    /\ cache = <<>>
    /\ access_times = <<>>
    /\ creation_times = <<>>
    /\ now = 0
    /\ stuck = FALSE
    /\ fill = <<>>
    /\ embedding_model = TRUE
    /\ cache_hits = 0
    /\ cache_requests = 0
    /\ encode_calls = 0
    /\ last = LastOp("init", 0, None, FALSE, 0)
    /\ InitSearch
    /\ InitConc
    /\ InitFusion

\* an ingester under some settings, before a call of _chunk_text
InitChunk ==
    /\ InitAtRest
    /\ \E cs \in 1..MaxChunkSize, f \in 0..MaxOverlapFifths,
          m \in 1..MaxDocChunks :
           chunking = [NoChunking EXCEPT !.chunk_size = cs,
                                         !.overlap_fifths = f,
                                         !.max_chunks = m]
    /\ InitLlm
    /\ InitApi

\* one call of _chunk_text on any text
NextChunk ==
    \/ \E text \in TokenTexts : ChunkText(text)
    \/ ChunkLoop
    \/ ChunkReturn

SpecChunk == InitChunk /\ [][NextChunk]_vars

\* a RunPodLLM whose breaker has some threshold and some timeout
InitBreaker ==
    /\ InitAtRest
    /\ InitIngest
    /\ \E th \in 1..MaxThreshold, rt \in 0..MaxRecovery :
           breaker = NewBreaker(th, rt)
    /\ calls = [c \in 1..MaxCalls |-> NoCall]
    /\ bop = [op |-> "none", at |-> 0, from |-> "CLOSED", since |-> 0]
    /\ InitApi

\* calls of generate_answer that overlap while time passes; the API answers
\* a request with a 200 and an answer, a 200 and an empty answer, another
\* status, or the request raises
NextBreaker ==
    \/ \E c \in 1..MaxCalls, has_chunks \in BOOLEAN :
           GenerateStart(c, has_chunks)
    \/ \E c \in 1..MaxCalls,
          how \in {"answer", "empty", "status", "raise"} :
           ApiResponse(c, how)
    \/ \E c \in 1..MaxCalls : GenerateReturn(c)
    \/ Tick

SpecBreaker == InitBreaker /\ [][NextBreaker]_vars

\* the endpoint before a request
InitQuery ==
    /\ InitAtRest
    /\ InitIngest
    /\ InitLlm
    /\ InitApi

\* requests to /query, one after the other
NextQuery ==
    \/ \E question \in 1..MaxQuestions, safe \in BOOLEAN,
          m \in {"elser", "hybrid"}, k \in 1..MaxQueryTopK :
           QueryStart(question, safe, m, k)
    \/ \E n \in 0..MaxQueryTopK, evidence \in BOOLEAN :
           QuerySearched(n, evidence)
    \/ QueryFailed
    \/ QueryGenerated
    \/ QueryRespond

SpecQuery == InitQuery /\ [][NextQuery]_vars

(* ------------------------------ claims -------------------------------- *)

\* C1: once the fusion of a hybrid search has run, all three adapter
\* coroutines of the call are done, and the three lists it was given are
\* the lists the three adapters returned; a hybrid call that returned
\* without an error has run the fusion.
C1_FusionAfterJoin ==
    /\ fused_inputs # <<>> =>
           \A a \in Adapters :
               /\ task[a].st = "done"
               /\ fused_inputs[1][a] = task[a].res
    /\ (pc = "returned" /\ mode = "hybrid" /\ error = "none") =>
           fused_inputs # <<>>

\* a hybrid search has fused a non-empty list with the empty list of an
\* adapter that failed
C1_Witness ==
    /\ pc = "returned"
    /\ mode = "hybrid"
    /\ fused_inputs # <<>>
    /\ \E a, b \in Adapters : task[a].res # <<>> /\ task[b].failed

\* C2: when the backend call of one adapter never resolves and the other
\* two adapters are done, a hybrid search (top_k >= 1) can still complete
\* its join and return.
C2_JoinCompletesWithinBudget ==
    (/\ pc = "gather"
     /\ top_k >= 1
     /\ \E a \in Adapters :
            /\ task[a].st = "never"
            /\ \A b \in Adapters \ {a} : task[b].st = "done")
        => ENABLED Join

\* the lists of the adapters that did not fail, the empty list for the rest
ListOfWorking(a) == IF task[a].failed THEN <<>> ELSE task[a].res

\* C3: a hybrid search in which exactly one adapter failed returns, without
\* an error, the fusion of the other two adapters' lists cut to top_k; the
\* result is not empty when those two lists are not, and the other two
\* adapters returned the results of their backends' answers.
C3_OneAdapterFails ==
    \A a \in Adapters :
        (/\ pc = "returned"
         /\ mode = "hybrid"
         /\ task[a].failed
         /\ \A b \in Adapters \ {a} : ~task[b].failed)
        => /\ outcome = "returned"
           /\ error = "none"
           /\ result = Slice(ReciprocalRankFusion(ListOfWorking("elser"),
                                                  ListOfWorking("bm25"),
                                                  ListOfWorking("dense"),
                                                  RRF_K), top_k)
           /\ Len(result) <= Max(top_k, 0)
           /\ (\A b \in Adapters \ {a} : task[b].res # <<>>) => result # <<>>
           /\ \A b \in Adapters \ {a} :
                  /\ task[b].st = "done"
                  /\ task[b].res = AdapterResults(b, task[b].reply)

\* the dense adapter failed for want of an embedding model, the other two
\* adapters returned hits, and the search returned some of them
C3_Witness ==
    /\ pc = "returned"
    /\ mode = "hybrid"
    /\ top_k >= 1
    /\ ~embedding_model
    /\ task["dense"].failed
    /\ \A b \in {"elser", "bm25"} : ~task[b].failed /\ task[b].res # <<>>
    /\ result # <<>>

\* C4: no exception leaves an adapter: an adapter that failed is done and
\* has returned the empty list, and the except clause of search never sees
\* an adapter's exception.
C4_AdaptersNeverRaise ==
    /\ \A a \in Adapters :
           /\ ~task[a].raised
           /\ task[a].failed => (task[a].st = "done" /\ task[a].res = <<>>)
    /\ error # "Exception"

\* all three adapters failed, the dense one for want of an embedding model,
\* and the search returned
C4_Witness ==
    /\ pc = "returned"
    /\ ~embedding_model
    /\ \A a \in Adapters : task[a].failed

\* C5: a search with a mode other than elser and hybrid ends with a
\* ValueError raised to the caller.
C5_UnknownModeRaises ==
    (pc = "returned" /\ mode \notin {"elser", "hybrid"})
        => (outcome = "raised" /\ error = "ValueError")

\* C6: a search with a top_k <= 0, in elser or in hybrid mode, ends with an
\* error raised to the caller, never with a list returned.
C6_NonPositiveTopKRejected ==
    (pc = "returned" /\ mode \in {"elser", "hybrid"} /\ top_k <= 0)
        => outcome = "raised"

\* C7: a hybrid search whose three adapters all returned the empty list has
\* fused three empty lists and returned the empty list, without an error.
C7_AllEmpty ==
    (/\ pc = "returned"
     /\ mode = "hybrid"
     /\ \A a \in Adapters : task[a].st = "done" /\ task[a].res = <<>>)
        => /\ outcome = "returned"
           /\ error = "none"
           /\ fused_inputs = <<[a \in Adapters |-> <<>>]>>
           /\ result = <<>>

\* a hybrid search with top_k >= 1 whose three backends all answered with
\* no hit has returned
C7_Witness ==
    /\ pc = "returned"
    /\ mode = "hybrid"
    /\ top_k >= 1
    /\ \A a \in Adapters :
           task[a].st = "done" /\ ~task[a].failed /\ task[a].res = <<>>
    /\ result = <<>>

\* C8: a cache built with max_size >= 1 never holds more than max_size
\* entries.
C8_SizeBound ==
    max_size >= 1 => Cardinality(DOMAIN cache) <= max_size

\* a put has evicted an entry of a full cache and left the cache full
C8_Witness ==
    /\ max_size >= 1
    /\ last.op = "put"
    /\ last.evicted >= 1
    /\ Cardinality(DOMAIN cache) = max_size

\* C9: a get that returns a vector returns the stored one, and not more than
\* ttl_seconds after the entry's last put, whatever its last access; a get
\* of a stored entry returns its vector at T0 + ttl - 1 and None at
\* T0 + ttl + 1, T0 being the time of its last put.
C9_TtlFromCreation ==
    [][\A t \in Texts :
          LET key == HashText(t)
          IN  (last'.op = "get" /\ last'.text = t) =>
                  /\ last'.ret # None =>
                         /\ key \in DOMAIN cache
                         /\ key \in DOMAIN creation_times
                         /\ last'.ret = cache[key]
                         /\ now - creation_times[key] <= ttl_seconds
                  /\ (key \in DOMAIN cache /\ key \in DOMAIN creation_times) =>
                         /\ now = creation_times[key] + ttl_seconds - 1
                                => last'.ret = cache[key]
                         /\ now = creation_times[key] + ttl_seconds + 1
                                => last'.ret = None]_vars

\* a get has returned the vector of an entry that is exactly ttl_seconds
\* old and was accessed after its put
C9_Witness ==
    \E t \in Texts :
        /\ last.op = "get"
        /\ last.text = t
        /\ last.ret # None
        /\ ttl_seconds >= 1
        /\ HashText(t) \in DOMAIN creation_times
        /\ now = creation_times[HashText(t)] + ttl_seconds

\* C10: on an entry that is stored and older than ttl_seconds, a get returns
\* None and removes that entry and no other from the three dictionaries, and
\* a lookup by _generate_query_embedding counts a request and no hit,
\* calls the model once and stores the fresh vector.
C10_ExpiredGetIsMiss ==
    [][\A t \in Texts :
          LET key == HashText(t)
          IN  (/\ key \in DOMAIN cache
               /\ key \in DOMAIN creation_times
               /\ now - creation_times[key] > ttl_seconds) =>
                  /\ (last'.op = "get" /\ last'.text = t) =>
                         /\ last'.ret = None
                         /\ cache' = Pop(cache, key)
                         /\ access_times' = OPop(access_times, key)
                         /\ creation_times' = Pop(creation_times, key)
                         /\ Cardinality(DOMAIN cache') =
                                Cardinality(DOMAIN cache) - 1
                         /\ UNCHANGED <<cache_requests, cache_hits,
                                        encode_calls>>
                  /\ (last'.op = "embed" /\ last'.text = t) =>
                         /\ cache_requests' = cache_requests + 1
                         /\ cache_hits' = cache_hits
                         /\ encode_calls' = encode_calls + 1
                         /\ last'.ret = Encode(t)
                         /\ key \in DOMAIN cache'
                         /\ cache'[key] = Encode(t)
                         /\ creation_times'[key] = now]_vars

\* a lookup has found its entry expired: two requests, no hit
C10_Witness ==
    /\ last.op = "embed"
    /\ last.expired
    /\ cache_requests = 2
    /\ cache_hits = 0
    /\ encode_calls = 2

\* C11: a put of a text that is not stored, into a cache that holds max_size
\* (>= 1) entries, removes exactly one entry, one whose last access is the
\* oldest, leaves the other entries as they are and stores the new one; and
\* a cache that was only filled with distinct texts holds the last max_size
\* of them: the put of text number max_size + 1 removes the first text put
\* and no other.
C11_PutEvictsOldest ==
    [][/\ \A t \in LruTexts :
            LET key == HashText(t)
            IN  (/\ last'.op = "put"
                 /\ last'.text = t
                 /\ key \notin DOMAIN cache
                 /\ Cardinality(DOMAIN cache) = max_size) =>
                    \E v \in DOMAIN cache :
                        /\ DOMAIN cache' = (DOMAIN cache \ {v}) \cup {key}
                        /\ Cardinality(DOMAIN cache') = max_size
                        /\ \A x \in DOMAIN cache :
                               OValue(access_times, v) <= OValue(access_times, x)
                        /\ \A x \in DOMAIN cache \ {v} :
                               /\ cache'[x] = cache[x]
                               /\ creation_times'[x] = creation_times[x]
                               /\ OValue(access_times', x) =
                                      OValue(access_times, x)
                        /\ cache'[key] = last'.ret
                        /\ creation_times'[key] = now
                        /\ OValue(access_times', key) = now
       /\ fill' # NoFill =>
              /\ DOMAIN cache' =
                     {HashText(fill'[i]) :
                         i \in Max(1, Len(fill') - max_size + 1)..Len(fill')}
              /\ (last'.op = "put" /\ Len(fill') = max_size + 1 /\ fill' # fill)
                     => DOMAIN cache \ DOMAIN cache' = {HashText(fill'[1])}
      ]_vars

\* a put into a full cache of two entries has removed one and kept an entry
\* that is older but was read after its put
C11_Witness ==
    /\ last.op = "put"
    /\ last.evicted = 1
    /\ max_size = 2
    /\ Cardinality(DOMAIN cache) = 2
    /\ HashText(last.text) \in DOMAIN cache
    /\ creation_times[HashText(last.text)] = now
    /\ \E x \in DOMAIN cache :
           /\ creation_times[x] < now
           /\ OValue(access_times, x) > creation_times[x]

\* C12: a put of a text that is already stored replaces its vector and
\* refreshes its two times, and leaves the set of stored keys and every
\* other entry as they are, also when the cache is full.
C12_PutExistingInPlace ==
    [][\A t \in Texts :
          LET key == HashText(t)
          IN  (/\ last'.op = "put"
               /\ last'.text = t
               /\ key \in DOMAIN cache) =>
                  /\ DOMAIN cache' = DOMAIN cache
                  /\ cache'[key] = last'.ret
                  /\ creation_times'[key] = now
                  /\ OValue(access_times', key) = now
                  /\ \A x \in DOMAIN cache \ {key} :
                         /\ cache'[x] = cache[x]
                         /\ creation_times'[x] = creation_times[x]]_vars

\* the place of a stored key in the insertion order of access_times
Place(od, key) == CHOOSE i \in 1..Len(od) : od[i][1] = key

\* a full cache that holds an expired entry and one that is not expired
MixedFull ==
    /\ Cardinality(DOMAIN cache) = max_size
    /\ \E x \in DOMAIN cache : IsExpired(Self, x, now)
    /\ \E y \in DOMAIN cache : ~IsExpired(Self, y, now)

\* C13 as claimed: the put of a text that is not stored, into a full cache
\* that holds expired and non-expired entries, removes the least recently
\* accessed of the entries that are not expired.
C13_EvictsNonExpiredFirst ==
    [][\A t \in LruTexts :
          (/\ last'.op = "put"
           /\ last'.text = t
           /\ HashText(t) \notin DOMAIN cache
           /\ MixedFull) =>
              \E v \in DOMAIN cache :
                  /\ v \notin DOMAIN cache'
                  /\ ~IsExpired(Self, v, now)
                  /\ \A y \in DOMAIN cache :
                         ~IsExpired(Self, y, now) =>
                             OValue(access_times, v) <= OValue(access_times, y)
      ]_vars

\* C13 as amended: that put removes exactly one entry, the least recently
\* accessed of all entries, expired or not, and of the entries accessed at
\* that time the one stored first; it is an expired entry when an expired
\* entry was accessed before every entry that is not expired.
C13_EvictsLeastRecentOfAll ==
    [][\A t \in LruTexts :
          (/\ last'.op = "put"
           /\ last'.text = t
           /\ HashText(t) \notin DOMAIN cache
           /\ MixedFull) =>
              \E v \in DOMAIN cache :
                  /\ DOMAIN cache \ DOMAIN cache' = {v}
                  /\ \A x \in DOMAIN cache \ {v} :
                         \/ OValue(access_times, v) < OValue(access_times, x)
                         \/ /\ OValue(access_times, v) = OValue(access_times, x)
                            /\ Place(access_times, v) < Place(access_times, x)
                  /\ (\E x \in DOMAIN cache :
                         /\ IsExpired(Self, x, now)
                         /\ \A y \in DOMAIN cache :
                                ~IsExpired(Self, y, now) =>
                                    OValue(access_times, x) <
                                        OValue(access_times, y))
                         => IsExpired(Self, v, now)
      ]_vars

\* a put into a full cache of two entries has evicted an expired entry and
\* kept an older entry, stored before this put, that is not expired
C13_Witness ==
    /\ last.op = "put"
    /\ last.evicted = 1
    /\ last.expired
    /\ max_size = 2
    /\ \E y \in DOMAIN cache \ {HashText(last.text)} : ~IsExpired(Self, y, now)

\* C14: with queries in flight at the same time on one cache, every get
\* and every put, made of separate reads and writes of the three
\* dictionaries, ends with the cache and the return value that the whole
\* operation gives when it is applied in one piece to the cache as it was
\* when the operation began; a get returns None or the vector put for its
\* text; and whenever no coroutine is running, the cache holds at most
\* max_size entries and its three dictionaries have the same keys.
C14_OperationsAtomic ==
    /\ \A c \in Coros :
           LET co == coro[c]
               g == GetResult(co.snap.self, co.text, co.snap.t)
               p == PutResult(co.snap.self, co.text, Encode(co.text), co.snap.t)
           IN  /\ co.pc = "got_hit" =>
                      /\ g.ret # None
                      /\ co.ret = g.ret
                      /\ co.ret = Encode(co.text)
                      /\ Self = g.self
               /\ co.pc = "got_miss" =>
                      /\ g.ret = None
                      /\ Self = g.self
               /\ co.pc = "put_done" =>
                      /\ ~p.hang
                      /\ Self = p.self
               /\ co.pc = "awaiting" => co.ret = Encode(co.text)
    /\ running = 0 =>
           /\ Cardinality(DOMAIN cache) <= max_size
           /\ OKeys(access_times) = DOMAIN cache
           /\ DOMAIN creation_times = DOMAIN cache

\* two queries are in flight: one awaits its backend, and the put of the
\* other, for another text, has just evicted the entry the first one stored
C14_Witness ==
    \E c, d \in Coros :
        /\ coro[c].pc = "awaiting"
        /\ coro[d].pc = "put_done"
        /\ coro[c].text # coro[d].text
        /\ HashText(coro[c].text) \notin DOMAIN cache
        /\ HashText(coro[d].text) \in DOMAIN cache

\* the text's entry is stored and not older than ttl_seconds
Fresh(t) ==
    /\ HashText(t) \in DOMAIN cache
    /\ HashText(t) \in DOMAIN creation_times
    /\ now - creation_times[HashText(t)] <= ttl_seconds

\* C15: a lookup by _generate_query_embedding calls the model not at all
\* when the text's entry is stored and not expired, and returns the stored
\* vector; otherwise it calls the model exactly once and has stored the
\* computed vector when it returns, before _search_dense issues its query.
\* After either, the entry is stored and not expired, so that a lookup of
\* the same text that follows at once, or later within ttl_seconds of the
\* put, does not call the model.
C15_EncodeOncePerMiss ==
    [][\A t \in Texts :
          LET key == HashText(t)
          IN  (last'.op = "embed" /\ last'.text = t) =>
                  /\ key \in DOMAIN cache'
                  /\ key \in DOMAIN creation_times'
                  /\ cache'[key] = last'.ret
                  /\ now - creation_times'[key] <= ttl_seconds
                  /\ Fresh(t) =>
                         /\ encode_calls' = encode_calls
                         /\ last'.ret = cache[key]
                         /\ cache' = cache
                         /\ creation_times' = creation_times
                  /\ ~Fresh(t) =>
                         /\ encode_calls' = encode_calls + 1
                         /\ last'.ret = Encode(t)
                         /\ creation_times'[key] = now
                  /\ (last.op = "embed" /\ last.text = t) =>
                         /\ Fresh(t)
                         /\ encode_calls' = encode_calls]_vars

\* a text was looked up twice, one tick apart and within ttl_seconds: one
\* call of the model, one hit
C15_Witness ==
    /\ last.op = "embed"
    /\ last.ret # None
    /\ cache_requests = 2
    /\ cache_hits = 1
    /\ encode_calls = 1
    /\ HashText(last.text) \in DOMAIN creation_times
    /\ creation_times[HashText(last.text)] < now

\* C16: a lookup adds one to the request count, and one to the hit count
\* exactly when the text's entry is stored and not expired; nothing but a
\* lookup and clear_cache changes the two counts, and clear_cache sets both
\* to 0 and empties the cache; so 0 <= hits <= requests, and requests - hits
\* is the number of calls of the model since the last clear_cache.
C16_CountersAgree ==
    [][/\ \A t \in Texts :
            (last'.op = "embed" /\ last'.text = t) =>
                /\ cache_requests' = cache_requests + 1
                /\ cache_hits' = cache_hits + (IF Fresh(t) THEN 1 ELSE 0)
       /\ last'.op \in {"get", "tick", "embed_raised"} =>
              UNCHANGED <<cache_requests, cache_hits, encode_calls>>
       /\ last'.op = "clear_cache" =>
              /\ cache_requests' = 0
              /\ cache_hits' = 0
              /\ cache' = <<>>
              /\ access_times' = <<>>
              /\ creation_times' = <<>>
       /\ 0 <= cache_hits'
       /\ cache_hits' <= cache_requests'
       /\ cache_requests' - cache_hits' = encode_calls'
      ]_vars

\* two lookups of two texts: two requests, no hit, two calls of the model
C16_Witness ==
    /\ last.op = "embed"
    /\ ~last.expired
    /\ cache_requests = 2
    /\ cache_hits = 0
    /\ encode_calls = 2
    /\ Cardinality(DOMAIN cache) = 2

\* the three lists given to the fusion
FuseInputs == <<fusion.elser, fusion.bm25, fusion.dense>>

\* the lists, by number, that hold chunk c, and those that hold it at rank r
ListsWith(c) ==
    {n \in 1..3 : \E i \in 1..Len(FuseInputs[n]) :
                      FuseInputs[n][i].chunk_id = c}
ListsWithAt(c, r) ==
    {n \in 1..3 : r <= Len(FuseInputs[n]) /\ FuseInputs[n][r].chunk_id = c}

\* the 1-based position of chunk c in list n, which holds it
RankIn(n, c) ==
    CHOOSE i \in 1..Len(FuseInputs[n]) : FuseInputs[n][i].chunk_id = c

\* 1/(k + r) in units of 1/ScoreUnit(k), for list n when it holds c
TermOf(n, c) ==
    IF n \in ListsWith(c)
    THEN ScoreUnit(fusion.k) \div (fusion.k + RankIn(n, c))
    ELSE 0

\* C17: the score of every chunk of the fused list is the sum of 1/(k + r)
\* over the input lists that hold the chunk, r being its 1-based position
\* in the list, and nothing for the other lists; a chunk of one list only
\* scores 1/(k + r), a chunk of two lists only 1/(k + r1) + 1/(k + r2).
\* (Scores are counted in units of 1/ScoreUnit(k), a multiple of every
\* k + r.)
C17_ScoreIsSumOfReciprocals ==
    fusion.done =>
        /\ \A r \in 1..MaxHits : ScoreUnit(fusion.k) % (fusion.k + r) = 0
        /\ \A i \in 1..Len(fusion.out) :
               LET c == fusion.out[i].chunk_id
                   score == fusion.out[i].rrf_score
                   holders == ListsWith(c)
               IN  /\ score = TermOf(1, c) + TermOf(2, c) + TermOf(3, c)
                   /\ \A n \in holders :
                          Cardinality(holders) = 1 =>
                              score * (fusion.k + RankIn(n, c)) =
                                  ScoreUnit(fusion.k)
                   /\ \A n, m \in holders :
                          (Cardinality(holders) = 2 /\ n # m) =>
                              score * (fusion.k + RankIn(n, c))
                                    * (fusion.k + RankIn(m, c)) =
                                  ScoreUnit(fusion.k)
                                    * ((fusion.k + RankIn(n, c))
                                       + (fusion.k + RankIn(m, c)))

\* the fusion has run with k = RRF_K on lists with a chunk at two different
\* ranks in two lists only and a chunk in one list only
C17_Witness ==
    /\ fusion.done
    /\ fusion.k = RRF_K
    /\ \E c \in FuseChunks :
           /\ Cardinality(ListsWith(c)) = 2
           /\ \E n, m \in ListsWith(c) : RankIn(n, c) # RankIn(m, c)
    /\ \E c \in FuseChunks : Cardinality(ListsWith(c)) = 1

\* C18: in the fused list, a chunk that is at rank r in two or more input
\* lists comes before every chunk that is at rank r in one list and in no
\* other list.
C18_AgreementOutranksSingle ==
    fusion.done =>
        \A i, j \in 1..Len(fusion.out) : \A r \in 1..MaxHits :
            LET a == fusion.out[i].chunk_id
                b == fusion.out[j].chunk_id
            IN  (/\ Cardinality(ListsWithAt(a, r)) >= 2
                 /\ Cardinality(ListsWithAt(b, r)) = 1
                 /\ Cardinality(ListsWith(b)) = 1) => i < j

\* the fusion has run with k = RRF_K on lists where a chunk is second in
\* the last two lists and another chunk is second in the first list only
C18_Witness ==
    /\ fusion.done
    /\ fusion.k = RRF_K
    /\ \E a, b \in FuseChunks :
           /\ ListsWithAt(a, 2) = {2, 3}
           /\ ListsWithAt(b, 2) = {1}
           /\ ListsWith(b) = {1}

\* the chunk ids of a list of results
ChunkIdsOf(results) == {results[i].chunk_id : i \in 1..Len(results)}

\* C19: the fused list holds no chunk_id twice, and its chunk_ids are those
\* of the three input lists together.
C19_MergedNotDuplicated ==
    fusion.done =>
        /\ \A i, j \in 1..Len(fusion.out) :
               fusion.out[i].chunk_id = fusion.out[j].chunk_id => i = j
        /\ ChunkIdsOf(fusion.out) =
               ChunkIdsOf(fusion.elser) \cup ChunkIdsOf(fusion.bm25)
                   \cup ChunkIdsOf(fusion.dense)

\* the fusion has run on lists of two chunks each, with one chunk in all
\* three, one in two and one in one of them
C19_Witness ==
    /\ fusion.done
    /\ Len(fusion.out) = 3
    /\ \A n \in 1..3 : Len(FuseInputs[n]) = 2
    /\ \E a, b, c \in FuseChunks :
           /\ Cardinality(ListsWith(a)) = 3
           /\ Cardinality(ListsWith(b)) = 2
           /\ Cardinality(ListsWith(c)) = 1

\* C20: every entry of the fused list has an rrf_score, and no entry has a
\* smaller rrf_score than the entry after it.
C20_SortedByScoreDescending ==
    fusion.done =>
        /\ \A i \in 1..Len(fusion.out) :
               "rrf_score" \in DOMAIN fusion.out[i]
        /\ \A i \in 1..(Len(fusion.out) - 1) :
               fusion.out[i].rrf_score >= fusion.out[i + 1].rrf_score

\* the fusion has put first a chunk that no list has first, before two
\* chunks of equal score
C20_Witness ==
    /\ fusion.done
    /\ Len(fusion.out) = 3
    /\ \A n \in 1..3 :
           FuseInputs[n] # <<>> =>
               FuseInputs[n][1].chunk_id # fusion.out[1].chunk_id
    /\ fusion.out[1].rrf_score > fusion.out[2].rrf_score
    /\ fusion.out[2].rrf_score = fusion.out[3].rrf_score

\* the results met when the three lists are gone through in the order
\* given, a sequence of list numbers of FuseInputs
InOrder(order) ==
    FuseInputs[order[1]] \o FuseInputs[order[2]] \o FuseInputs[order[3]]

\* the position at which chunk c, held by some list, is met first
FirstSeen(order, c) ==
    CHOOSE i \in 1..Len(InOrder(order)) :
        /\ InOrder(order)[i].chunk_id = c
        /\ \A j \in 1..(i - 1) : InOrder(order)[j].chunk_id # c

\* the lists in the order lexical (BM25), sparse-expansion (ELSER), dense
LexicalFirst == <<2, 1, 3>>

\* the lists in the order of the loops of _reciprocal_rank_fusion
SparseFirst == <<1, 2, 3>>

\* C21: two chunks of equal fusion score are in the fused list in the
\* order in which they are first met when the lists are gone through
\* lexical (BM25) first, then sparse-expansion (ELSER), then dense-vector.
C21_TiesInLexicalFirstOrder ==
    fusion.done =>
        \A i, j \in 1..Len(fusion.out) :
            (/\ i < j
             /\ fusion.out[i].rrf_score = fusion.out[j].rrf_score) =>
                FirstSeen(LexicalFirst, fusion.out[i].chunk_id) <
                    FirstSeen(LexicalFirst, fusion.out[j].chunk_id)

\* the list, by number, that holds chunk c and comes first in the order
FirstHolder(order, c) ==
    order[CHOOSE p \in 1..3 :
              /\ order[p] \in ListsWith(c)
              /\ \A q \in 1..(p - 1) : order[q] \notin ListsWith(c)]

\* C22: the payload of the fused entry of a chunk held by more than one
\* list is the payload the chunk has in the list that introduced it first
\* (the lists taken lexical first, or in the order the loops take them),
\* not the payload of a later sighting.
C22_PayloadFromFirstList ==
    fusion.done =>
        \A i \in 1..Len(fusion.out) :
            LET c == fusion.out[i].chunk_id
            IN  Cardinality(ListsWith(c)) > 1 =>
                    \E order \in {LexicalFirst, SparseFirst} :
                        LET n == FirstHolder(order, c)
                        IN  fusion.out[i].source =
                                FuseInputs[n][RankIn(n, c)].source

\* what adapter a gave back for the answer of its backend: the results
\* built from the hits, or nothing when it ended in its except clause
Response(a) ==
    IF task[a].failed THEN <<>> ELSE AdapterResults(a, task[a].reply)

\* C23: what a hybrid search returns (order, scores, payloads) is given by
\* the answers of the three adapters alone, the lists taken in the order
\* of the gather: it is the same whichever adapter came to its end first,
\* second and third.
C23_CompletionOrderIrrelevant ==
    (pc = "returned" /\ mode = "hybrid" /\ error = "none") =>
        /\ \A a \in Adapters : task[a].nth \in 1..3
        /\ result = Slice(ReciprocalRankFusion(Response("elser"),
                                               Response("bm25"),
                                               Response("dense"), RRF_K),
                          top_k)

\* a hybrid search has returned whose adapters came to their end in the
\* reverse of the order of the gather, the sparse-expansion and the lexical
\* adapter each with one chunk, of equal fusion score, the second of them
\* also the dense adapter's: the result is the sparse-expansion chunk
C23_Witness ==
    /\ pc = "returned"
    /\ mode = "hybrid"
    /\ error = "none"
    /\ task["dense"].nth = 1
    /\ task["bm25"].nth = 2
    /\ task["elser"].nth = 3
    /\ task["elser"].reply = <<1>>
    /\ task["bm25"].reply = <<2>>
    /\ task["dense"].reply = <<>>
    /\ ~task["dense"].failed
    /\ Len(result) = 1
    /\ result[1].chunk_id = 1

\* a result of a caller's list is as the adapter built it, without rrf_score
Untouched(results) ==
    \A i \in 1..Len(results) :
        DOMAIN results[i] = {"chunk_id", "source", "score", "rank"}

\* C24: a call of the fusion leaves the three lists of the caller and the
\* results in them as they were, without an rrf_score in any of them, and
\* a second call on the same lists and k returns what the first returned.
C24_DeterministicInputsUnchanged ==
    [][/\ fusion'.elser = fusion.elser
       /\ fusion'.bm25 = fusion.bm25
       /\ fusion'.dense = fusion.dense
       /\ fusion'.k = fusion.k
       /\ Untouched(fusion'.elser)
       /\ Untouched(fusion'.bm25)
       /\ Untouched(fusion'.dense)
       /\ fusion.done => fusion'.out = fusion.out]_vars

\* the fusion has been called twice on lists with a chunk in two of them
\* and returned three entries
C24_Witness ==
    /\ fusion.calls = 2
    /\ Len(fusion.out) = 3
    /\ fusion.dense # <<>>
    /\ \E c \in 1..MaxAgainChunks : Cardinality(ListsWith(c)) = 2

\* C25: when exactly one of the three lists is not empty, the fused list
\* has the length and the order of that list, and its i-th entry has the
\* score 1/(k + i).
C25_SingleListKeepsOrder ==
    fusion.done =>
        \A n \in 1..3 :
            (/\ FuseInputs[n] # <<>>
             /\ \A m \in (1..3) \ {n} : FuseInputs[m] = <<>>) =>
                /\ Len(fusion.out) = Len(FuseInputs[n])
                /\ \A i \in 1..Len(fusion.out) :
                       /\ fusion.out[i].chunk_id = FuseInputs[n][i].chunk_id
                       /\ fusion.out[i].rrf_score * (fusion.k + i) =
                              ScoreUnit(fusion.k)

\* the fusion has run with k = RRF_K on a lexical list of two chunks, the
\* other two lists empty
C25_Witness ==
    /\ fusion.done
    /\ fusion.k = RRF_K
    /\ fusion.elser = <<>>
    /\ fusion.dense = <<>>
    /\ Len(fusion.bm25) = MaxFuseHits
    /\ Len(fusion.out) = MaxFuseHits

\* the chunk ids of a list of results, in order
IdsOf(results) == [i \in 1..Len(results) |-> results[i].chunk_id]

\* a hybrid search with top_k = 3 has returned after the three adapters
\* answered as in the scenario
ScenarioReturned ==
    /\ pc = "returned"
    /\ mode = "hybrid"
    /\ top_k = ScenarioTopK
    /\ error = "none"
    /\ \A a \in Adapters : ~task[a].failed /\ task[a].reply \in ScenarioHits(a)

\* the lists of the scenario that hold chunk c
RepliesWith(c) == {a \in Adapters : c \in Range(task[a].reply)}

\* C26 as stated: whatever the lists hold after the ranks given, the
\* search of the scenario (k = 60, top_k = 3) returns C, A, B.
C26_ScenarioAnyTail ==
    ScenarioReturned => IdsOf(result) = <<ChunkC, ChunkA, ChunkB>>

\* C26: when besides A and C no chunk is in more than one list, the search
\* of the scenario (k = 60, top_k = 3) returns exactly C, A, B, in that
\* order.
C26_ScenarioOrder ==
    (/\ ScenarioReturned
     /\ \A c \in OtherChunks : Cardinality(RepliesWith(c)) <= 1) =>
        IdsOf(result) = <<ChunkC, ChunkA, ChunkB>>

\* the search of the scenario has returned, with a further chunk third in
\* the lexical list and x in the dense list only
C26_Witness ==
    /\ ScenarioReturned
    /\ \A c \in OtherChunks : Cardinality(RepliesWith(c)) <= 1
    /\ Len(task["bm25"].reply) = 3
    /\ RepliesWith(ChunkX) = {"dense"}
    /\ Len(result) = 3

\* C27: a hybrid search enters each of the three adapters once, never
\* twice, each with the query of the search and a pool of 2 * top_k, and
\* what it returns is cut from the fusion of their three lists with
\* k = RRF_K.
C27_HybridCallsEachAdapterOnce ==
    /\ mode = "hybrid" => \A a \in Adapters : task[a].calls <= 1
    /\ (pc = "returned" /\ mode = "hybrid") =>
           /\ \A a \in Adapters :
                  /\ task[a].calls = 1
                  /\ task[a].query = query
                  /\ task[a].size = 2 * top_k
           /\ fused_inputs = <<[a \in Adapters |-> task[a].res]>>
           /\ result = Slice(ReciprocalRankFusion(fused_inputs[1]["elser"],
                                                  fused_inputs[1]["bm25"],
                                                  fused_inputs[1]["dense"],
                                                  RRF_K), top_k)

\* a hybrid search with top_k = 1 has returned one result, the dense
\* adapter having got two hits for its pool of two
C27_Witness ==
    /\ pc = "returned"
    /\ mode = "hybrid"
    /\ top_k = 1
    /\ \A a \in Adapters : task[a].calls = 1 /\ ~task[a].failed
    /\ Len(task["dense"].reply) = 2
    /\ Len(result) = 1

\* the full list a search cuts its result from: the sparse-expansion
\* adapter's list in elser mode, the fused list in hybrid mode
FullList ==
    IF mode = "elser" THEN task["elser"].res
    ELSE ReciprocalRankFusion(task["elser"].res, task["bm25"].res,
                              task["dense"].res, RRF_K)

\* C28: a search in elser or hybrid mode with top_k >= 1 returns at most
\* top_k results, and they are the first results of the full adapter list
\* (elser) or of the full fused list (hybrid).
C28_ResultIsPrefixWithinTopK ==
    (pc = "returned" /\ mode \in {"elser", "hybrid"} /\ top_k >= 1) =>
        /\ Len(result) <= top_k
        /\ Len(result) <= Len(FullList)
        /\ result = SubSeq(FullList, 1, Len(result))

\* a hybrid search has returned top_k results of a longer fused list
C28_Witness ==
    /\ pc = "returned"
    /\ mode = "hybrid"
    /\ error = "none"
    /\ top_k >= 1
    /\ Len(result) = top_k
    /\ Len(FullList) > top_k

\* C29: during a search in elser mode only the sparse-expansion adapter is
\* called, once at most and with a pool of top_k; no step of the search
\* changes the embedding cache, its hit and request counters or the count
\* of calls of the embedding model; and what the search returns are the
\* first results of the adapter's list, in its order, each with its
\* strategy score and without a fusion score.
C29_ElserModeOnlySparseAdapter ==
    [][mode' = "elser" =>
          /\ cache' = cache
          /\ access_times' = access_times
          /\ creation_times' = creation_times
          /\ cache_hits' = cache_hits
          /\ cache_requests' = cache_requests
          /\ encode_calls' = encode_calls
          /\ task'["bm25"].calls = 0 /\ task'["bm25"].st = "unused"
          /\ task'["dense"].calls = 0 /\ task'["dense"].st = "unused"
          /\ task'["elser"].calls <= 1
          /\ task'["elser"].query = query'
          /\ task'["elser"].size = top_k'
          /\ fused_inputs' = <<>>
          /\ pc' = "returned" =>
                 /\ task'["elser"].calls = 1
                 /\ Len(result') <= Len(task'["elser"].res)
                 /\ \A i \in 1..Len(result') :
                        /\ result'[i] = task'["elser"].res[i]
                        /\ DOMAIN result'[i] =
                               {"chunk_id", "source", "score", "rank"}
                        /\ result'[i].source = "elser"
                        /\ result'[i].score =
                               HitScore(task'["elser"].reply, i)]_vars

\* a search in elser mode has returned a result while the cache holds the
\* embedding of an earlier hybrid search
C29_Witness ==
    /\ pc = "returned"
    /\ mode = "elser"
    /\ error = "none"
    /\ Len(result) = 1
    /\ cache_requests = 1
    /\ encode_calls = 1
    /\ Cardinality(DOMAIN cache) = 1

\* C30: an adapter that ended without failing has returned one result per
\* hit of its backend, in the backend's order and with the hits' scores,
\* which do not increase along the list, and the i-th result has rank i:
\* the ranks are 1..N without gap or repeat.
C30_AdapterRanksInBackendOrder ==
    \A a \in Adapters :
        (task[a].st = "done" /\ ~task[a].failed) =>
            LET res == task[a].res
                hits == task[a].reply
            IN  /\ Len(res) = Len(hits)
                /\ \A i \in 1..Len(res) :
                       /\ res[i].chunk_id = hits[i]
                       /\ res[i].score = HitScore(hits, i)
                       /\ res[i].rank = i
                /\ \A i \in 1..(Len(res) - 1) :
                       res[i].score >= res[i + 1].score
                /\ {res[i].rank : i \in 1..Len(res)} = 1..Len(hits)

\* the lexical adapter has returned two results for two hits
C30_Witness ==
    /\ task["bm25"].st = "done"
    /\ ~task["bm25"].failed
    /\ Len(task["bm25"].reply) = 2
    /\ Len(task["bm25"].res) = 2
    /\ task["bm25"].res[2].rank = 2

\* C31: a call of _chunk_text on a text that is not blank and has at most
\* CHUNK_SIZE tokens has returned exactly one chunk, whose content is the
\* whole stripped text.
C31_ShortTextOneChunk ==
    (/\ chunking.pc = "done"
     /\ ~IsBlank(TokenizerEncode(chunking.text))
     /\ Len(chunking.text) <= chunking.chunk_size) =>
        /\ Len(chunking.chunks) = 1
        /\ chunking.chunks[1].content = Strip(TokenizerEncode(chunking.text))

\* a round of the loop of _chunk_text: the call stays in the loop and its
\* locals change
ChunkRound == chunking.pc = "loop" /\ chunking'.pc = "loop"

\* what holds of the chunks and of the rounds of a call of _chunk_text
ChunksBounded ==
    /\ Len(chunking.chunks) <= chunking.max_chunks
    /\ \A i \in 1..Len(chunking.chunks) :
           /\ Len(chunking.chunks[i].tokens) <= chunking.chunk_size
           /\ Len(chunking.chunks[i].content) <= chunking.chunk_size
    /\ chunking.rounds <= chunking.start
    /\ chunking.rounds <= Len(chunking.tokens)

\* C32: every round of the loop of _chunk_text moves start forward, so a
\* call makes at most as many rounds as the text has tokens and then
\* returns; the chunks it has are at most MAX_CHUNKS_PER_DOC, each of at
\* most CHUNK_SIZE tokens.
C32_ChunkLoopAdvances ==
    /\ []ChunksBounded
    /\ [][ChunkRound => chunking'.start > chunking.start]_vars

\* a call has returned after three rounds, of which one met white space
\* only, with the two chunks it may make and tokens left over
C32_Witness ==
    /\ chunking.pc = "done"
    /\ chunking.rounds = 3
    /\ chunking.max_chunks = 2
    /\ Len(chunking.chunks) = 2
    /\ chunking.start < Len(chunking.tokens)

\* the calls the breaker admitted as test requests and that wait for the
\* API: their outcome is not recorded yet
TestsUnderWay == {c \in 1..MaxCalls : calls[c].pc = "awaiting" /\ calls[c].test}

\* C33: of the calls of generate_answer that overlap, at most one at a
\* time is admitted with the breaker HALF_OPEN and waits for its outcome to
\* be recorded.
C33_OneTestRequest == Cardinality(TestsUnderWay) <= 1

\* the step is call c of generate_answer running from its call to its
\* return or to its first await
Starts(c) == calls[c].pc = "idle" /\ calls'[c].pc # "idle"

\* the step is a call of generate_answer recording with the breaker method
\* op
Records(op) ==
    /\ bop'.op = op
    /\ \E c \in 1..MaxCalls : calls[c].pc = "awaiting" /\ calls'[c].pc = "done"

\* CLOSED goes with fewer failures than the threshold, and failure_count
\* counts the failures since the last record_success
ClosedBelowThreshold ==
    /\ breaker.failure_count = bop.since
    /\ breaker.state = "CLOSED" =>
           breaker.failure_count < breaker.failure_threshold

\* the breaker leaves CLOSED for OPEN in a record_failure that brings the
\* failures since the last success to the threshold, and in every such one
OpensAtThreshold ==
    /\ (breaker.state = "CLOSED" /\ breaker'.state = "OPEN") =>
           /\ Records("record_failure")
           /\ bop'.since = breaker.failure_threshold
    /\ (breaker.state = "CLOSED" /\ Records("record_failure")) =>
           IF bop'.since < breaker.failure_threshold
           THEN breaker'.state = "CLOSED"
           ELSE breaker'.state = "OPEN"

\* C34: in every state of the breaker CLOSED implies failure_count <
\* failure_threshold; the breaker goes from CLOSED to OPEN at the
\* record_failure that brings the failures since the last record_success
\* to failure_threshold, and at no other step.
C34_ClosedBelowThreshold == []ClosedBelowThreshold /\ [][OpensAtThreshold]_vars

\* the second failure in a row has opened a breaker of threshold 2
C34_Witness ==
    /\ breaker.failure_threshold = 2
    /\ breaker.state = "OPEN"
    /\ breaker.failure_count = 2
    /\ bop.op = "record_failure"
    /\ bop.from = "CLOSED"

\* an OPEN breaker has the time of a failure
OpenHasFailureTime ==
    breaker.state = "OPEN" =>
        /\ breaker.last_failure_time # NoTime
        /\ breaker.last_failure_time <= now

\* a call of generate_answer that finds the breaker OPEN and no more than
\* recovery_timeout elapsed is refused, sends nothing and leaves the
\* breaker as it is
RefusedWhileOpen ==
    \A c \in 1..MaxCalls :
        (/\ Starts(c)
         /\ breaker.state = "OPEN"
         /\ now - breaker.last_failure_time <= breaker.recovery_timeout) =>
            /\ ~CanExecute(breaker, now).ok
            /\ calls'[c].pc = "done"
            /\ calls'[c].ret = "unavailable"
            /\ ~calls'[c].sent
            /\ calls'[c].recorded = 0
            /\ breaker' = breaker

\* C35: while the breaker is OPEN and at most recovery_timeout has elapsed
\* since the last recorded failure, can_execute returns false and
\* generate_answer returns the unavailable message, sends no request and
\* leaves the breaker unchanged; every OPEN breaker has last_failure_time
\* set.
C35_OpenRefuses == []OpenHasFailureTime /\ [][RefusedWhileOpen]_vars

\* a call was refused exactly recovery_timeout after the last failure
C35_Witness ==
    /\ breaker.state = "OPEN"
    /\ breaker.recovery_timeout = 1
    /\ now - breaker.last_failure_time = 1
    /\ bop.op = "can_execute"
    /\ bop.from = "OPEN"
    /\ bop.at = now
    /\ \E c \in 1..MaxCalls : calls[c].pc = "done" /\ calls[c].ret = "unavailable"

\* how the breaker enters and leaves HALF_OPEN
HalfOpenSteps ==
    /\ (breaker.state # "HALF_OPEN" /\ breaker'.state = "HALF_OPEN") =>
           /\ breaker.state = "OPEN"
           /\ bop'.op = "can_execute"
           /\ \E c \in 1..MaxCalls : Starts(c)
           /\ now - breaker.last_failure_time > breaker.recovery_timeout
    /\ (breaker.state = "HALF_OPEN" /\ Records("record_success")) =>
           /\ breaker'.state = "CLOSED"
           /\ breaker'.failure_count = 0
    /\ (breaker.state = "HALF_OPEN" /\ Records("record_failure")) =>
           breaker'.state = "OPEN"
    /\ (breaker.state = "HALF_OPEN" /\ breaker'.state # "HALF_OPEN") =>
           Records("record_success") \/ Records("record_failure")

\* C36: the breaker enters HALF_OPEN only from OPEN, in can_execute, when
\* more than recovery_timeout has elapsed since the last failure; in
\* HALF_OPEN a recorded success makes it CLOSED with failure_count 0, a
\* recorded failure makes it OPEN, and nothing else makes it leave.
C36_HalfOpenTransitions == [][HalfOpenSteps]_vars

\* a success recorded in HALF_OPEN has closed the breaker
C36_Witness ==
    /\ bop.op = "record_success"
    /\ bop.from = "HALF_OPEN"
    /\ breaker.state = "CLOSED"
    /\ breaker.failure_count = 0
    /\ breaker.last_failure_time # NoTime

\* C37: a call of generate_answer that was admitted, has sent its request
\* and has returned has recorded exactly one outcome with the breaker.
C37_OneOutcomeRecorded ==
    \A c \in 1..MaxCalls :
        (calls[c].pc = "done" /\ calls[c].sent) => calls[c].recorded = 1

\* the request has got through the search with nothing to answer from: no
\* chunk, or chunks that has_sufficient_evidence refused
NothingToAnswerFrom ==
    /\ request.pc \in {"generating", "done"}
    /\ request.searched = 1
    /\ request.chunks = 0 \/ ~request.evidence

\* C38: a request to /query whose question is_safe_query refused has not
\* called retriever.search, a request whose search returned no chunk or
\* chunks without sufficient evidence has not called llm.generate_answer,
\* and the responses to both have an empty citation list.
C38_GuardsBeforeSearchAndLlm ==
    /\ ~request.safe =>
           /\ request.searched = 0
           /\ request.generated = 0
           /\ request.pc = "done"
           /\ request.outcome = "unsafe"
           /\ request.citations = 0
    /\ NothingToAnswerFrom =>
           /\ request.generated = 0
           /\ request.pc = "done"
           /\ request.outcome = "no_evidence"
           /\ request.citations = 0
    /\ request.generated > 0 =>
           request.safe /\ request.searched = 1 /\ request.chunks > 0

\* a search has returned two chunks that are not sufficient evidence, and
\* the request was answered without the llm and without citations
C38_Witness ==
    /\ request.pc = "done"
    /\ request.safe
    /\ request.searched = 1
    /\ request.chunks = 2
    /\ ~request.evidence
    /\ request.generated = 0
    /\ request.citations = 0

\* C39: after any sequence of get, put and clear the dictionaries cache,
\* access_times and creation_times of the cache have the same keys, each
\* once, and no stored key was last accessed before it was created.
C39_MapsShareKeys ==
    /\ OKeys(access_times) = DOMAIN cache
    /\ DOMAIN creation_times = DOMAIN cache
    /\ Len(access_times) = Cardinality(DOMAIN cache)
    /\ \A key \in DOMAIN cache :
           /\ key \in OKeys(access_times)
           /\ key \in DOMAIN creation_times
           /\ OValue(access_times, key) >= creation_times[key]

\* a get has refreshed an entry that was stored earlier, beside another
\* entry that was not read since
C39_Witness ==
    /\ last.op = "get"
    /\ last.ret # None
    /\ Cardinality(DOMAIN cache) = 2
    /\ OKeys(access_times) = DOMAIN cache
    /\ \E key \in DOMAIN cache :
           /\ key \in DOMAIN creation_times
           /\ OValue(access_times, key) > creation_times[key]

\* C40: a put on any cache the constructor builds, max_size = 0 with an
\* empty cache included, ends: its eviction loop stops and the new entry
\* is stored.
C40_PutTerminates ==
    last.op = "put" =>
        /\ ~stuck
        /\ HashText(last.text) \in DOMAIN cache

====
